---- MODULE Spec2Model ----
(***************************************************************************)
(* Model of the declarative field validator (validation/validator.go).     *)
(*                                                                         *)
(* Go strings are modelled by TLA+ strings (byte sequences: Len is len(),  *)
(* SubSeq is slicing, \o is concatenation).  A Go `error` is a record      *)
(* [isNil, msg].  A Go value seen through reflection is a record           *)
(* [kind, typ, s, n, isNil]: its reflect.Kind, its dynamic type name, its  *)
(* text (kind String), its integer value or length, and whether it is nil. *)
(***************************************************************************)
EXTENDS Integers, Sequences, FiniteSets, TLC

VARIABLES
    data,       \* the argument of the running Validate call
    pc,         \* position in Validate: "call", "loop", "ret", "done"
    idx,        \* the loop variable i of Validate (0-based, as in the code)
    errors,     \* the local slice `errors` of Validate
    result,     \* the value Validate returned (NoResult until it returns)
    applied,    \* trace of the applyRule calls made by the running Validate
    fin,        \* the arguments (name, value, tag) of a validateField call
    fpc,        \* position of that call: "call" or "done"
    fout,       \* the []string validateField returned
    ftrace,     \* trace of the applyRule calls made by that validateField
    recs,       \* the records a caller holds and hands to Validate
    who,        \* the calls the caller made so far: the index of the record given
    outs,       \* what these calls returned, in order
    calls,      \* concurrent Validate calls: per goroutine, its argument and locals
    gerrors,    \* the slices `errors` of the concurrent calls
    values,     \* the map Config.values
    sets,       \* the Set calls made on the Config so far: <<key, value>> pairs
    got,        \* the last Get call on the Config: its key and what it returned
    ret,        \* the last call of another method of the Config, and its results
    gens,       \* the SimpleIDGenerators created: their counter and prefix
    ids,        \* per SimpleIDGenerator, the IDs its Generate calls returned, in order
    regs,       \* goroutines inside Generate of a shared generator: position, register
    hexgen      \* the HexIDGenerator created, and what its last Generate did

validateVars == <<data, pc, idx, errors, result, applied>>
fieldVars == <<fin, fpc, fout, ftrace>>
callerVars == <<recs, who, outs>>
goVars == <<calls, gerrors>>
configVars == <<values, sets, got, ret>>
idVars == <<gens, ids, regs, hexgen>>

vars == <<validateVars, fieldVars, callerVars, goVars, configVars, idVars>>

(***************************************************************************)
(* Bounds of the model.                                                    *)
(***************************************************************************)
\* Largest number of fields of a validated record.
MaxFields == 2
\* Largest min/max parameter tried; lengths and integers range one beyond it.
MaxMeasure == 11

(***************************************************************************)
(* Strings.                                                                *)
(***************************************************************************)
Lower == {"a","b","c","d","e","f","g","h","i","j","k","l","m",
          "n","o","p","q","r","s","t","u","v","w","x","y","z"}
Upper == {"A","B","C","D","E","F","G","H","I","J","K","L","M",
          "N","O","P","Q","R","S","T","U","V","W","X","Y","Z"}
Digit == {"0","1","2","3","4","5","6","7","8","9"}
\* unicode.IsSpace restricted to ASCII, as used by strings.TrimSpace
Space == {" ", "\t", "\n", "\r", "\f"}

At(s, i) == SubSeq(s, i, i)

\* strings.Index, 1-based: the first place where sep occurs in s, 0 if none
Index(s, sep) ==
    LET hits == {i \in 1..(Len(s) - Len(sep) + 1) : SubSeq(s, i, i + Len(sep) - 1) = sep}
    IN  IF hits = {} THEN 0 ELSE CHOOSE i \in hits : \A j \in hits : i <= j

Contains(s, sub) == Index(s, sub) > 0

HasPrefix(s, p) == Len(s) >= Len(p) /\ SubSeq(s, 1, Len(p)) = p

\* strings.Split for a non-empty separator: Split("", sep) is <<"">>
RECURSIVE Split(_, _)
Split(s, sep) ==
    LET k == Index(s, sep)
    IN  IF k = 0 THEN <<s>>
        ELSE <<SubSeq(s, 1, k - 1)>> \o Split(SubSeq(s, k + Len(sep), Len(s)), sep)

\* strings.Join
RECURSIVE Join(_, _)
Join(elems, sep) ==
    IF elems = <<>> THEN ""
    ELSE IF Len(elems) = 1 THEN elems[1]
    ELSE elems[1] \o sep \o Join(Tail(elems), sep)

RECURSIVE TrimLeft(_)
TrimLeft(s) ==
    IF s # "" /\ At(s, 1) \in Space THEN TrimLeft(SubSeq(s, 2, Len(s))) ELSE s

RECURSIVE TrimRight(_)
TrimRight(s) ==
    IF s # "" /\ At(s, Len(s)) \in Space THEN TrimRight(SubSeq(s, 1, Len(s) - 1)) ELSE s

\* strings.TrimSpace
TrimSpace(s) == TrimRight(TrimLeft(s))

\* every byte of s[from..to] is in the class cls
AllIn(s, from, to, cls) == \A k \in from..to : At(s, k) \in cls

(***************************************************************************)
(* Errors.                                                                 *)
(***************************************************************************)
Nil == [isNil |-> TRUE, msg |-> ""]
\* fmt.Errorf with the message already formatted
Errorf(m) == [isNil |-> FALSE, msg |-> m]
NoResult == [isNil |-> FALSE, msg |-> "<running>"]

(***************************************************************************)
(* Values as reflection sees them.                                         *)
(***************************************************************************)
V(kind, typ, s, n, isNil) == [kind |-> kind, typ |-> typ, s |-> s, n |-> n, isNil |-> isNil]

\* reflect.ValueOf(nil): the zero Value, of kind Invalid
InvalidV == V("Invalid", "nil", "", 0, TRUE)
StringV(s) == V("String", "string", s, 0, FALSE)
IntV(kind, n) == V(kind, "int", "", n, FALSE)
UintV(n) == V("Uint", "uint", "", n, FALSE)
BoolV(b) == V("Bool", "bool", "", IF b THEN 1 ELSE 0, FALSE)
FloatV(n) == V("Float64", "float64", "", n, FALSE)
\* a slice of n items; the nil slice has no items
SliceV(n, isNil) == V("Slice", "[]string", "", n, isNil)
ArrayV(n) == V("Array", "[n]string", "", n, FALSE)
MapV(n, isNil) == V("Map", "map[string]string", "", n, isNil)
PtrV(isNil) == V("Ptr", "*T", "", 0, isNil)
StructV == V("Struct", "T", "", 0, FALSE)
FuncV(isNil) == V("Func", "func()", "", 0, isNil)
\* a field of interface type: nil, or holding the dynamic value v
IfaceNilV == V("Interface", "nil", "", 0, TRUE)

SignedKinds == {"Int", "Int8", "Int16", "Int32", "Int64"}

\* reflect.Value.Interface() of a field followed by reflect.ValueOf: a nil
\* interface field becomes the invalid Value, anything else keeps its kind
Interface(v) == IF v.kind = "Interface" /\ v.isNil THEN InvalidV ELSE v

(***************************************************************************)
(* parseInt: fmt.Sscanf(str, "%d", &result), result staying 0 on error.    *)
(* The parameters tried have few digits, so the range error of             *)
(* strconv.ParseInt cannot occur.                                          *)
(***************************************************************************)
DigitVal(c) ==
    CASE c = "0" -> 0 [] c = "1" -> 1 [] c = "2" -> 2 [] c = "3" -> 3 [] c = "4" -> 4
      [] c = "5" -> 5 [] c = "6" -> 6 [] c = "7" -> 7 [] c = "8" -> 8 [] c = "9" -> 9

\* length of the longest prefix of s[i..] made of digits (scanNumber's accept loop)
RECURSIVE DigitRun(_, _)
DigitRun(s, i) ==
    IF i <= Len(s) /\ At(s, i) \in Digit THEN 1 + DigitRun(s, i + 1) ELSE 0

\* value of the digit string s[i..j]
RECURSIVE DecimalValue(_, _, _)
DecimalValue(s, i, j) ==
    IF j < i THEN 0 ELSE 10 * DecimalValue(s, i, j - 1) + DigitVal(At(s, j))

\* SkipSpace of the scanner: blanks are skipped, a newline is an error (0 here)
RECURSIVE SkipSpace(_, _)
SkipSpace(s, i) ==
    IF i <= Len(s) /\ At(s, i) \in {" ", "\t", "\r", "\f"} THEN SkipSpace(s, i + 1) ELSE i

\* parseInt giving 0 unless the whole text is a decimal integer
parseIntWholeText(str) ==
    IF str = "" THEN 0
    ELSE LET i == SkipSpace(str, 1)
             signed == i <= Len(str) /\ At(str, i) \in {"+", "-"}
             d == IF signed THEN i + 1 ELSE i
             k == DigitRun(str, d)
         IN  IF k = 0 \/ d + k - 1 < Len(str) THEN 0
             ELSE IF signed /\ At(str, i) = "-"
                  THEN 0 - DecimalValue(str, d, d + k - 1)
                  ELSE DecimalValue(str, d, d + k - 1)

parseInt(str) ==
    IF str = "" THEN 0
    ELSE LET i == SkipSpace(str, 1)
             signed == i <= Len(str) /\ At(str, i) \in {"+", "-"}
             d == IF signed THEN i + 1 ELSE i
             k == DigitRun(str, d)
         IN  IF k = 0 THEN 0
             ELSE IF signed /\ At(str, i) = "-"
                  THEN 0 - DecimalValue(str, d, d + k - 1)
                  ELSE DecimalValue(str, d, d + k - 1)

(***************************************************************************)
(* Regular expressions.  emailRegex and urlRegex are the two literals of   *)
(* the source; regexp.Compile is modelled for the patterns of the form     *)
(* ^? atom* $? where an atom is a byte or a class [..] of bytes and        *)
(* ranges, optionally followed by + or *.                                  *)
(***************************************************************************)
Alpha == Lower \cup Upper
AlNum == Alpha \cup Digit
\* \s of the regexp package
ReSpace == {"\t", "\n", "\f", "\r", " "}

\* ^[a-zA-Z0-9._%+-]+@[a-zA-Z0-9.-]+\.[a-zA-Z]{2,}$
emailRegexMatch(str) ==
    LET n == Len(str)
        local == AlNum \cup {".", "_", "%", "+", "-"}
        domain == AlNum \cup {".", "-"}
    IN  \E a \in 2..n : \E d \in (a + 2)..(n - 2) :
            /\ At(str, a) = "@"
            /\ At(str, d) = "."
            /\ AllIn(str, 1, a - 1, local)
            /\ AllIn(str, a + 1, d - 1, domain)
            /\ AllIn(str, d + 1, n, Alpha)

\* ^https?://[^\s/$.?#].[^\s]*$
urlRegexMatch(str) ==
    LET scheme == IF HasPrefix(str, "https://") THEN 8
                  ELSE IF HasPrefix(str, "http://") THEN 7 ELSE 0
        n == Len(str)
    IN  /\ scheme > 0
        /\ n >= scheme + 2
        /\ At(str, scheme + 1) \notin (ReSpace \cup {"/", "$", ".", "?", "#"})
        /\ At(str, scheme + 2) # "\n"
        /\ \A k \in (scheme + 3)..n : At(str, k) \notin ReSpace

\* the bytes classes may range over, in ASCII order
ByteOrder == "0123456789ABCDEFGHIJKLMNOPQRSTUVWXYZ_abcdefghijklmnopqrstuvwxyz"
Ord(c) == Index(ByteOrder, c)
Range(lo, hi) == {At(ByteOrder, k) : k \in Ord(lo)..Ord(hi)}

\* the set of bytes of the class body s (the text between [ and ])
RECURSIVE ClassSet(_)
ClassSet(s) ==
    IF s = "" THEN {}
    ELSE IF Len(s) >= 3 /\ At(s, 2) = "-"
         THEN Range(At(s, 1), At(s, 3)) \cup ClassSet(SubSeq(s, 4, Len(s)))
         ELSE {At(s, 1)} \cup ClassSet(SubSeq(s, 2, Len(s)))

\* the atoms of the pattern body p; bad is the unparsable rest, "" if none
RECURSIVE ParseAtoms(_)
ParseAtoms(p) ==
    IF p = "" THEN [atoms |-> <<>>, bad |-> ""]
    ELSE LET close == IF At(p, 1) = "[" THEN Index(p, "]") ELSE 1
         IN  IF close = 0 THEN [atoms |-> <<>>, bad |-> p]
             ELSE LET set == IF At(p, 1) = "[" THEN ClassSet(SubSeq(p, 2, close - 1))
                                               ELSE {At(p, 1)}
                      rep == IF close < Len(p) /\ At(p, close + 1) \in {"+", "*"}
                             THEN At(p, close + 1) ELSE "1"
                      next == IF rep = "1" THEN close + 1 ELSE close + 2
                      rest == ParseAtoms(SubSeq(p, next, Len(p)))
                  IN  [atoms |-> <<[set |-> set, rep |-> rep]>> \o rest.atoms,
                       bad |-> rest.bad]

\* regexp.Compile: the compiled program, or the error (whose text quotes the
\* offending rest of the pattern; the quote is written ' here, a backquote
\* being no character of a TLA+ string)
regexpCompile(pattern) ==
    LET head == HasPrefix(pattern, "^")
        p1 == IF head THEN SubSeq(pattern, 2, Len(pattern)) ELSE pattern
        tail == p1 # "" /\ At(p1, Len(p1)) = "$"
        p2 == IF tail THEN SubSeq(p1, 1, Len(p1) - 1) ELSE p1
        parsed == ParseAtoms(p2)
    IN  IF parsed.bad # ""
        THEN [err |-> Errorf("error parsing regexp: missing closing ]: '" \o parsed.bad
                             \o (IF tail THEN "$" ELSE "") \o "'"),
              atoms |-> <<>>, head |-> head, tail |-> tail]
        ELSE [err |-> Nil, atoms |-> parsed.atoms, head |-> head, tail |-> tail]

\* the positions where a match of atoms starting at position i of str can end
RECURSIVE MatchEnds(_, _, _)
MatchEnds(atoms, str, i) ==
    IF atoms = <<>> THEN {i}
    ELSE LET a == Head(atoms)
             least == IF a.rep = "*" THEN 0 ELSE 1
             left == Len(str) - i + 1
             most == IF a.rep = "1" /\ left >= 1 THEN 1 ELSE left
             takes == {k \in least..most : AllIn(str, i, i + k - 1, a.set)}
         IN  UNION {MatchEnds(Tail(atoms), str, i + k) : k \in takes}

\* Regexp.MatchString
regexMatchString(re, str) ==
    \E i \in 1..(Len(str) + 1) :
        /\ re.head => i = 1
        /\ \E e \in MatchEnds(re.atoms, str, i) : re.tail => e = Len(str) + 1

(***************************************************************************)
(* The rule evaluators.                                                    *)
(***************************************************************************)
\* the type assertion value.(string)
IsString(value) == value.typ = "string"

\* validateRequired taking the zero number for an empty value as well
validateRequiredZeroIsEmpty(name, value) ==
    LET required == Errorf("field '" \o name \o "' is required")
    IN  CASE value.kind = "String" -> IF value.s = "" THEN required ELSE Nil
          [] value.kind \in {"Slice", "Map", "Array"} -> IF value.n = 0 THEN required ELSE Nil
          [] value.kind \in {"Ptr", "Interface"} -> IF value.isNil THEN required ELSE Nil
          [] value.kind \in SignedKinds -> IF value.n = 0 THEN required ELSE Nil
          [] value.kind = "Invalid" -> required
          [] OTHER -> Nil

validateRequired(name, value) ==
    LET required == Errorf("field '" \o name \o "' is required")
    IN  CASE value.kind = "String" -> IF value.s = "" THEN required ELSE Nil
          [] value.kind \in {"Slice", "Map", "Array"} -> IF value.n = 0 THEN required ELSE Nil
          [] value.kind \in {"Ptr", "Interface"} -> IF value.isNil THEN required ELSE Nil
          [] value.kind = "Invalid" -> required
          [] OTHER -> Nil

\* validateMin refusing the bound itself (<= for <)
validateMinExclusive(name, value, minStr) ==
    CASE value.kind = "String" ->
            IF Len(value.s) <= parseInt(minStr)
            THEN Errorf("field '" \o name \o "' must be at least " \o minStr \o " characters")
            ELSE Nil
      [] value.kind \in {"Slice", "Array"} ->
            IF value.n <= parseInt(minStr)
            THEN Errorf("field '" \o name \o "' must have at least " \o minStr \o " items")
            ELSE Nil
      [] value.kind \in SignedKinds ->
            IF value.n <= parseInt(minStr)
            THEN Errorf("field '" \o name \o "' must be at least " \o minStr)
            ELSE Nil
      [] OTHER -> Nil

\* validateMin measuring texts and sequences only, integers passing unchecked
validateMinLengthsOnly(name, value, minStr) ==
    CASE value.kind = "String" ->
            IF Len(value.s) < parseInt(minStr)
            THEN Errorf("field '" \o name \o "' must be at least " \o minStr \o " characters")
            ELSE Nil
      [] value.kind \in {"Slice", "Array"} ->
            IF value.n < parseInt(minStr)
            THEN Errorf("field '" \o name \o "' must have at least " \o minStr \o " items")
            ELSE Nil
      [] OTHER -> Nil


validateMin(name, value, minStr) ==
    CASE value.kind = "String" ->
            IF Len(value.s) < parseInt(minStr)
            THEN Errorf("field '" \o name \o "' must be at least " \o minStr \o " characters")
            ELSE Nil
      [] value.kind \in {"Slice", "Array"} ->
            IF value.n < parseInt(minStr)
            THEN Errorf("field '" \o name \o "' must have at least " \o minStr \o " items")
            ELSE Nil
      [] value.kind \in SignedKinds ->
            IF value.n < parseInt(minStr)
            THEN Errorf("field '" \o name \o "' must be at least " \o minStr)
            ELSE Nil
      [] OTHER -> Nil

\* validateMax refusing the bound itself (>= for >)
validateMaxExclusive(name, value, maxStr) ==
    CASE value.kind = "String" ->
            IF Len(value.s) >= parseInt(maxStr)
            THEN Errorf("field '" \o name \o "' must be at most " \o maxStr \o " characters")
            ELSE Nil
      [] value.kind \in {"Slice", "Array"} ->
            IF value.n >= parseInt(maxStr)
            THEN Errorf("field '" \o name \o "' must have at most " \o maxStr \o " items")
            ELSE Nil
      [] value.kind \in SignedKinds ->
            IF value.n >= parseInt(maxStr)
            THEN Errorf("field '" \o name \o "' must be at most " \o maxStr)
            ELSE Nil
      [] OTHER -> Nil


\* validateMax measuring mappings as it measures sequences
validateMaxCountsMaps(name, value, maxStr) ==
    CASE value.kind = "String" ->
            IF Len(value.s) > parseInt(maxStr)
            THEN Errorf("field '" \o name \o "' must be at most " \o maxStr \o " characters")
            ELSE Nil
      [] value.kind \in {"Slice", "Array", "Map"} ->
            IF value.n > parseInt(maxStr)
            THEN Errorf("field '" \o name \o "' must have at most " \o maxStr \o " items")
            ELSE Nil
      [] value.kind \in SignedKinds ->
            IF value.n > parseInt(maxStr)
            THEN Errorf("field '" \o name \o "' must be at most " \o maxStr)
            ELSE Nil
      [] OTHER -> Nil

validateMax(name, value, maxStr) ==
    CASE value.kind = "String" ->
            IF Len(value.s) > parseInt(maxStr)
            THEN Errorf("field '" \o name \o "' must be at most " \o maxStr \o " characters")
            ELSE Nil
      [] value.kind \in {"Slice", "Array"} ->
            IF value.n > parseInt(maxStr)
            THEN Errorf("field '" \o name \o "' must have at most " \o maxStr \o " items")
            ELSE Nil
      [] value.kind \in SignedKinds ->
            IF value.n > parseInt(maxStr)
            THEN Errorf("field '" \o name \o "' must be at most " \o maxStr)
            ELSE Nil
      [] OTHER -> Nil

validateEmail(name, value) ==
    IF ~IsString(value)
    THEN Errorf("field '" \o name \o "' must be a string for email validation")
    ELSE IF ~emailRegexMatch(value.s)
    THEN Errorf("field '" \o name \o "' must be a valid email address")
    ELSE Nil

\* validateURL letting every empty value through before looking at its type
validateURLEmptyFirst(name, value) ==
    IF value.kind = "Invalid" \/ value.isNil \/ (value.kind \in {"Slice", "Array", "Map"} /\ value.n = 0)
    THEN Nil
    ELSE IF ~IsString(value)
    THEN Errorf("field '" \o name \o "' must be a string for URL validation")
    ELSE IF value.s = "" THEN Nil
    ELSE IF ~urlRegexMatch(value.s)
    THEN Errorf("field '" \o name \o "' must be a valid URL")
    ELSE Nil


validateURL(name, value) ==
    IF ~IsString(value)
    THEN Errorf("field '" \o name \o "' must be a string for URL validation")
    ELSE IF value.s = "" THEN Nil
    ELSE IF ~urlRegexMatch(value.s)
    THEN Errorf("field '" \o name \o "' must be a valid URL")
    ELSE Nil

\* validatePattern taking a pattern that does not compile for one that
\* matches nothing
validatePatternNoCompileError(name, value, pattern) ==
    IF ~IsString(value)
    THEN Errorf("field '" \o name \o "' must be a string for pattern validation")
    ELSE LET regex == regexpCompile(pattern)
         IN  IF ~regex.err.isNil \/ ~regexMatchString(regex, value.s)
             THEN Errorf("field '" \o name \o "' does not match required pattern")
             ELSE Nil

validatePattern(name, value, pattern) ==
    IF ~IsString(value)
    THEN Errorf("field '" \o name \o "' must be a string for pattern validation")
    ELSE LET regex == regexpCompile(pattern)
         IN  IF ~regex.err.isNil
             THEN Errorf("invalid pattern for field '" \o name \o "': " \o regex.err.msg)
             ELSE IF ~regexMatchString(regex, value.s)
             THEN Errorf("field '" \o name \o "' does not match required pattern")
             ELSE Nil

\* applyRule passing over a rule it does not know
applyRuleIgnoresUnknown(name, value, ruleName, ruleValue) ==
    CASE ruleName = "required" -> validateRequired(name, value)
      [] ruleName = "min" -> validateMin(name, value, ruleValue)
      [] ruleName = "max" -> validateMax(name, value, ruleValue)
      [] ruleName = "email" -> validateEmail(name, value)
      [] ruleName = "url" -> validateURL(name, value)
      [] ruleName = "pattern" -> validatePattern(name, value, ruleValue)
      [] OTHER -> Nil

\* applyRule reporting an unknown rule under the name of its field
applyRuleNamesField(name, value, ruleName, ruleValue) ==
    CASE ruleName = "required" -> validateRequired(name, value)
      [] ruleName = "min" -> validateMin(name, value, ruleValue)
      [] ruleName = "max" -> validateMax(name, value, ruleValue)
      [] ruleName = "email" -> validateEmail(name, value)
      [] ruleName = "url" -> validateURL(name, value)
      [] ruleName = "pattern" -> validatePattern(name, value, ruleValue)
      [] OTHER -> Errorf("field '" \o name \o "' has unknown validation rule: " \o ruleName)

applyRule(name, value, ruleName, ruleValue) ==
    CASE ruleName = "required" -> validateRequired(name, value)
      [] ruleName = "min" -> validateMin(name, value, ruleValue)
      [] ruleName = "max" -> validateMax(name, value, ruleValue)
      [] ruleName = "email" -> validateEmail(name, value)
      [] ruleName = "url" -> validateURL(name, value)
      [] ruleName = "pattern" -> validatePattern(name, value, ruleValue)
      [] OTHER -> Errorf("unknown validation rule: " \o ruleName)

(***************************************************************************)
(* validateField.  ruleLoop is its loop over the rules of the tag: one     *)
(* entry [ruleName, ruleValue, err] per rule handed to applyRule, in       *)
(* order.  validateField returns the messages of the entries that failed.  *)
(***************************************************************************)
\* the loop over the rules leaving the field at the first unknown rule
RECURSIVE ruleLoopStopsAtUnknown(_, _, _)
ruleLoopStopsAtUnknown(name, value, rules) ==
    IF rules = <<>> THEN <<>>
    ELSE LET rule == TrimSpace(Head(rules))
         IN  IF rule = "" THEN ruleLoopStopsAtUnknown(name, value, Tail(rules))
             ELSE LET parts == Split(rule, "=")
                      ruleName == parts[1]
                      ruleValue == IF Len(parts) > 1 THEN parts[2] ELSE ""
                      err == applyRule(name, value, ruleName, ruleValue)
                      known == ruleName \in {"required", "min", "max", "email", "url", "pattern"}
                  IN  <<[ruleName |-> ruleName, ruleValue |-> ruleValue, err |-> err]>>
                      \o (IF known THEN ruleLoopStopsAtUnknown(name, value, Tail(rules))
                                   ELSE <<>>)

RECURSIVE ruleLoop(_, _, _)
ruleLoop(name, value, rules) ==
    IF rules = <<>> THEN <<>>
    ELSE LET rule == TrimSpace(Head(rules))
         IN  IF rule = "" THEN ruleLoop(name, value, Tail(rules))
             ELSE LET parts == Split(rule, "=")
                      ruleName == parts[1]
                      ruleValue == IF Len(parts) > 1 THEN parts[2] ELSE ""
                      err == applyRule(name, value, ruleName, ruleValue)
                  IN  <<[ruleName |-> ruleName, ruleValue |-> ruleValue, err |-> err]>>
                      \o ruleLoop(name, value, Tail(rules))

\* the messages of a trace, in order: errors = append(errors, err.Error())
RECURSIVE Messages(_)
Messages(trace) ==
    IF trace = <<>> THEN <<>>
    ELSE (IF Head(trace).err.isNil THEN <<>> ELSE <<Head(trace).err.msg>>)
         \o Messages(Tail(trace))

fieldTrace(name, value, tag) == ruleLoop(name, value, Split(tag, ","))

\* validateField giving up at the first violation of the field
validateFieldFirstOnly(name, value, tag) ==
    LET msgs == Messages(fieldTrace(name, value, tag))
    IN  IF msgs = <<>> THEN <<>> ELSE <<msgs[1]>>

validateField(name, value, tag) == Messages(fieldTrace(name, value, tag))

(***************************************************************************)
(* Records handed to Validate.  A target is [kind, isNil, elemKind,        *)
(* fields]: the kind of the argument, whether it is a nil pointer, the     *)
(* kind of what a pointer points to, and the fields of the struct.  A      *)
(* field is [name, tag, value] with tag = [present, value] the             *)
(* `validate` key of its struct tag.                                       *)
(***************************************************************************)
F(name, present, tag, value) ==
    [name |-> name, tag |-> [present |-> present, value |-> tag], value |-> value]

\* reflect.StructField.IsExported: the name starts with an upper-case letter
IsExported(field) == At(field.name, 1) \in Upper

\* reflect.StructTag.Get("validate"): "" when the key is absent
TagGet(field) == IF field.tag.present THEN field.tag.value ELSE ""

Target(kind, isNil, elemKind, fields) ==
    [kind |-> kind, isNil |-> isNil, elemKind |-> elemKind, fields |-> fields]

ErrNilTarget == Errorf("validation target cannot be nil")
ErrNotAStruct == Errorf("validation target must be a struct")

\* targetCheck without the test of the kind (line 33 left out)
targetCheckNoKindTest(d) ==
    IF d.kind = "Ptr" /\ d.isNil THEN ErrNilTarget ELSE Nil

\* lines 21-35 of Validate: the error it returns before looking at any field
targetCheck(d) ==
    IF d.kind = "Ptr"
    THEN IF d.isNil THEN ErrNilTarget
         ELSE IF d.elemKind # "Struct" THEN ErrNotAStruct ELSE Nil
    ELSE IF d.kind # "Struct" THEN ErrNotAStruct ELSE Nil

\* the loop passing over the fields without a declaration only (lines 43-46 left out)
skippedUntaggedOnly(field) == TagGet(field) = ""

\* lines 43-51: the fields the loop passes over (unexported, or no declaration)
skipped(field) == ~IsExported(field) \/ TagGet(field) = ""

\* lines 53-57: what one iteration of the loop appends to errors
fieldErrors(field) ==
    IF skipped(field) THEN <<>>
    ELSE validateField(field.name, Interface(field.value), TagGet(field))

\* the applyRule calls of that iteration, each tagged with the field's index
fieldCalls(field, i) ==
    IF skipped(field) THEN <<>>
    ELSE LET tr == fieldTrace(field.name, Interface(field.value), TagGet(field))
         IN  [k \in 1..Len(tr) |->
                [field |-> i, name |-> field.name, ruleName |-> tr[k].ruleName,
                 ruleValue |-> tr[k].ruleValue, failed |-> ~tr[k].err.isNil]]

(***************************************************************************)
(* Run-time panics.  The reflect calls of the source panic on values of    *)
(* the wrong kind; each operator below tells whether the calls made on     *)
(* one path of the code panic.                                             *)
(***************************************************************************)
\* reflect.Value.Len panics unless the kind is one of these
LenKinds == {"Array", "Chan", "Map", "Slice", "String"}
\* reflect.Value.IsNil panics unless the kind is one of these
NilableKinds == {"Chan", "Func", "Interface", "Map", "Ptr", "Slice", "UnsafePointer"}

\* reflect.Value.Interface panics on a value read from an unexported field
InterfacePanics(field) == ~IsExported(field)

\* lines 117-132: val.String(), val.Len() and val.IsNil() under their cases
validateRequiredPanics(value) ==
    CASE value.kind = "String" -> FALSE
      [] value.kind \in {"Slice", "Map", "Array"} -> value.kind \notin LenKinds
      [] value.kind \in {"Ptr", "Interface"} -> value.kind \notin NilableKinds
      [] OTHER -> FALSE

\* lines 141-154: val.String(), val.Len() and val.Int() under their cases
validateMinPanics(value) ==
    CASE value.kind = "String" -> FALSE
      [] value.kind \in {"Slice", "Array"} -> value.kind \notin LenKinds
      [] value.kind \in {"Int", "Int8", "Int16", "Int32", "Int64"} ->
            value.kind \notin SignedKinds
      [] OTHER -> FALSE

\* lines 163-176: the same calls in validateMax
validateMaxPanics(value) ==
    CASE value.kind = "String" -> FALSE
      [] value.kind \in {"Slice", "Array"} -> value.kind \notin LenKinds
      [] value.kind \in {"Int", "Int8", "Int16", "Int32", "Int64"} ->
            value.kind \notin SignedKinds
      [] OTHER -> FALSE

\* applyRule: email, url and pattern use the two-value type assertion, which
\* does not panic; the two regexp.MustCompile literals compile;
\* regexp.Compile returns its error
applyRulePanics(value, ruleName) ==
    CASE ruleName = "required" -> validateRequiredPanics(value)
      [] ruleName = "min" -> validateMinPanics(value)
      [] ruleName = "max" -> validateMaxPanics(value)
      [] OTHER -> FALSE

\* lines 72-88: parts[0] is read whatever the length of parts
validateFieldPanics(value, tag) ==
    LET rules == Split(tag, ",")
    IN  \E k \in 1..Len(rules) :
            LET rule == TrimSpace(rules[k])
                parts == Split(rule, "=")
            IN  rule # "" /\ (Len(parts) < 1 \/ applyRulePanics(value, parts[1]))

\* lines 39-57: one iteration of the loop over the fields
fieldPanics(field) ==
    /\ ~skipped(field)
    /\ \/ InterfacePanics(field)
       \/ validateFieldPanics(Interface(field.value), TagGet(field))

\* lines 24-35: value.IsNil() and value.Elem() under kind Ptr
targetPanics(d) == d.kind = "Ptr" /\ d.kind \notin NilableKinds

\* aggregate overlooking a lone violation (len(errors) > 1 for > 0)
aggregateOffByOne(errs) ==
    IF Len(errs) > 1 THEN Errorf("validation failed: " \o Join(errs, "; ")) ELSE Nil

\* aggregate joining the messages with ";" alone
aggregateBareSeparator(errs) ==
    IF Len(errs) > 0 THEN Errorf("validation failed: " \o Join(errs, ";")) ELSE Nil

\* lines 60-64 of Validate
aggregate(errs) ==
    IF Len(errs) > 0 THEN Errorf("validation failed: " \o Join(errs, "; ")) ELSE Nil

(***************************************************************************)
(* The inputs tried.                                                       *)
(***************************************************************************)
RECURSIVE Repeat(_, _)
Repeat(c, k) == IF k <= 0 THEN "" ELSE c \o Repeat(c, k - 1)

DigitText(d) == At("0123456789", d + 1)

\* the decimal text of the integer n, as a rule declaration writes it
RECURSIVE DecimalText(_)
DecimalText(n) ==
    IF n < 0 THEN "-" \o DecimalText(0 - n)
    ELSE IF n < 10 THEN DigitText(n)
    ELSE DecimalText(n \div 10) \o DigitText(n % 10)

\* the fields a validated record is made of
FieldPool ==
    { F("Name", TRUE, "required,min=2", StringV("")),
      F("Name", TRUE, "required,min=2", StringV("Al")),
      F("Age", TRUE, "min=18,max=120", IntV("Int", 17)),
      F("Age", TRUE, "min=18,max=120", IntV("Int", 121)),
      F("Tags", TRUE, "min=1,max=10", SliceV(0, FALSE)),
      F("Code", TRUE, "bogus,min=3", StringV("x")),
      F("Code", TRUE, "required,bogus=1,max=1", StringV("ok")),
      F("secret", TRUE, "required,bogus", StringV("")),
      F("Note", FALSE, "", StringV("")),
      F("Note", TRUE, "", StringV("")),
      F("Ref", TRUE, " required , ,email", PtrV(TRUE)),
      F("Site", TRUE, "url", StringV("ftp://x.y")) }

DistinctNames(fs) == \A i, j \in 1..Len(fs) : fs[i].name = fs[j].name => i = j

\* the struct values: up to MaxFields fields with distinct names
Structs ==
    UNION { {fs \in [1..k -> FieldPool] : DistinctNames(fs)} : k \in 0..MaxFields }

\* what Validate is called with: structs by value and by pointer, nil
\* pointers, the untyped nil, and values that are not structs
Targets ==
    {Target("Struct", FALSE, "", fs) : fs \in Structs}
    \cup {Target("Ptr", FALSE, "Struct", fs) : fs \in Structs}
    \cup {Target("Ptr", TRUE, k, <<>>) : k \in {"Struct", "Int", "String", "Ptr"}}
    \cup {Target("Ptr", FALSE, k, <<>>) : k \in {"Int", "String", "Ptr", "Slice"}}
    \cup {Target(k, FALSE, "", <<>>) : k \in {"String", "Int", "Bool", "Array"}}
    \cup {Target(k, n, "", <<>>) : k \in {"Slice", "Map", "Func"}, n \in BOOLEAN}
    \cup {Target("Invalid", TRUE, "", <<>>)}

\* the addresses tried with rule email
EmailTexts ==
    {"john@example.com", "user.name@domain.co.uk", "test+tag@example.org",
     "invalid-email", "@example.com", "john@", "john@.com", "john@example..com",
     "john@example.c", "jo hn@example.com", "john@exa_mple.com", "john@com"}

\* the addresses tried with rule url
UrlTexts ==
    {"https://example.com", "http://test.org", "https://subdomain.example.com/path",
     "invalid-url", "ftp://example.com", "http://a", "https://a", "http://ab",
     "http://a b", "http://ab c", "http://", "http:///x", "http://a/p", "example.com"}

\* the names tried with rule pattern
UsernameTexts == {"john_doe123", "john-doe", "john doe"}

\* the values of a field
FieldValues ==
    {StringV(Repeat("a", k)) : k \in 0..(MaxMeasure + 1)}
    \cup {StringV(s) : s \in EmailTexts \cup UrlTexts \cup UsernameTexts}
    \cup {IntV(kd, n) : kd \in {"Int", "Int64"}, n \in (-2)..(MaxMeasure + 1)}
    \cup {IntV(kd, 0) : kd \in {"Int8", "Int16", "Int32"}}
    \cup {SliceV(k, FALSE) : k \in 0..(MaxMeasure + 1)}
    \cup {ArrayV(k) : k \in 0..(MaxMeasure + 1)}
    \cup {MapV(k, FALSE) : k \in 0..1}
    \cup {SliceV(0, TRUE), MapV(0, TRUE)}
    \cup {UintV(0), UintV(5), BoolV(FALSE), BoolV(TRUE), FloatV(0)}
    \cup {PtrV(TRUE), PtrV(FALSE), FuncV(TRUE), FuncV(FALSE), StructV, IfaceNilV}

\* parameters of min and max that are no decimal integer
MalformedParams == {"", "abc", "5abc", "abc5", "-1x", " 7", "-"}

\* the rule declarations of a field
FieldTags ==
    {"min=" \o DecimalText(n) : n \in (-1)..MaxMeasure}
    \cup {"max=" \o DecimalText(n) : n \in (-1)..MaxMeasure}
    \cup {"required", "email", "url"}
    \cup {r \o "=" \o p : r \in {"min", "max"}, p \in MalformedParams}
    \cup {"pattern=" \o p : p \in {"^[a-z]+$", "^[a-zA-Z0-9_]+$", "[a-z", "^[a-z$", "a*", ""}}
    \cup {"bogus", "unknown_rule", "Required", "min =3", "=5", "bogus=1"}
    \cup {"required,min=2", " required , ,min=2", "bogus,required", "required,bogus,min=3"}
    \cup {"pattern=^a=b$", "min=2=9", "pattern=^[a-z,]+$"}

FieldNames == {"Name", "Field"}

NoField == [name |-> "", value |-> InvalidV, tag |-> ""]

FieldInputs == [name : FieldNames, value : FieldValues, tag : FieldTags]

(***************************************************************************)
(* Validate, step by step.                                                 *)
(***************************************************************************)
ValidateIdle ==
    /\ data = Target("Invalid", TRUE, "", <<>>)
    /\ pc = "idle" /\ idx = 0 /\ errors = <<>> /\ result = NoResult /\ applied = <<>>

FieldIdle == fin = NoField /\ fpc = "idle" /\ fout = <<>> /\ ftrace = <<>>

CallerIdle == recs = <<>> /\ who = <<>> /\ outs = <<>>

NoGoroutines == calls = <<>> /\ gerrors = <<>>

\* no Get call made: got is [key, value, at], at being the number of Set
\* calls made before the Get call
NoGet == [key |-> "", value |-> "", at |-> 0]

\* no call of another method made: ret is [op, kind, key, def, value, err, at]
NoCall == [op |-> "", kind |-> "", key |-> "", def |-> "", value |-> "", err |-> Nil, at |-> 0]

NoConfig == values = <<>> /\ sets = <<>> /\ got = NoGet /\ ret = NoCall

\* no HexIDGenerator was created
NoHex == [requested |-> 0, length |-> 0, called |-> FALSE, out |-> "", panicked |-> FALSE]

\* no ID generator was created
NoIds == gens = <<>> /\ ids = <<>> /\ regs = <<>> /\ hexgen = NoHex

Init ==
    /\ data \in Targets
    /\ pc = "call" /\ idx = 0 /\ errors = <<>> /\ result = NoResult /\ applied = <<>>
    /\ FieldIdle
    /\ CallerIdle
    /\ NoGoroutines
    /\ NoConfig
    /\ NoIds

\* Validate keeping the violations of an earlier call: errors is not made
\* empty at line 37
ValidateTargetKeepsErrors ==
    /\ pc = "call"
    /\ LET err == targetCheck(data)
       IN  IF err.isNil
           THEN pc' = "loop" /\ result' = result
           ELSE pc' = "done" /\ result' = err
    /\ idx' = 0
    /\ UNCHANGED <<data, errors, applied, fin, fpc, fout, ftrace, recs, who, outs,
                 goVars, configVars, idVars>>

\* lines 20-37: the pointer and the kind of the target
ValidateTarget ==
    /\ pc = "call"
    /\ LET err == targetCheck(data)
       IN  IF targetPanics(data)
           THEN pc' = "panic" /\ result' = result
           ELSE IF err.isNil
           THEN pc' = "loop" /\ result' = result
           ELSE pc' = "done" /\ result' = err
    /\ idx' = 0
    /\ errors' = <<>>
    /\ UNCHANGED <<data, applied, fin, fpc, fout, ftrace, recs, who, outs,
                 goVars, configVars, idVars>>

\* lines 39-58: one iteration of the loop over the fields
ValidateNextField ==
    /\ pc = "loop"
    /\ idx < Len(data.fields)
    /\ IF fieldPanics(data.fields[idx + 1])
       THEN pc' = "panic" /\ UNCHANGED <<errors, applied, idx>>
       ELSE /\ errors' = errors \o fieldErrors(data.fields[idx + 1])
            /\ applied' = applied \o fieldCalls(data.fields[idx + 1], idx)
            /\ idx' = idx + 1
            /\ pc' = pc
    /\ UNCHANGED <<data, result, fin, fpc, fout, ftrace, recs, who, outs,
                 goVars, configVars, idVars>>

\* lines 39 and 60-64: the loop ends and Validate returns
ValidateReturn ==
    /\ pc = "loop"
    /\ ~(idx < Len(data.fields))
    /\ result' = aggregate(errors)
    /\ pc' = "done"
    /\ UNCHANGED <<data, idx, errors, applied, fin, fpc, fout, ftrace, recs, who, outs,
                 goVars, configVars, idVars>>

Next == ValidateTarget \/ ValidateNextField \/ ValidateReturn

Spec == Init /\ [][Next]_vars

(***************************************************************************)
(* Validate on records with one field of any kind under any declaration.   *)
(***************************************************************************)
\* structs of one declared field, exported or not, besides the other targets
AnyTargets ==
    Targets
    \cup {Target("Struct", FALSE, "", <<F(name, TRUE, tag, value)>>) :
            name \in {"Field", "secret"}, tag \in FieldTags, value \in FieldValues}

InitAny ==
    /\ data \in AnyTargets
    /\ pc = "call" /\ idx = 0 /\ errors = <<>> /\ result = NoResult /\ applied = <<>>
    /\ FieldIdle
    /\ CallerIdle
    /\ NoGoroutines
    /\ NoConfig
    /\ NoIds

SpecAny == InitAny /\ [][Next]_vars

(***************************************************************************)
(* validateField on its own: one field, one value, one declaration.        *)
(***************************************************************************)
InitField ==
    /\ ValidateIdle
    /\ fin \in FieldInputs
    /\ fpc = "call" /\ fout = <<>> /\ ftrace = <<>>
    /\ CallerIdle
    /\ NoGoroutines
    /\ NoConfig
    /\ NoIds

\* lines 68-91
ValidateFieldRun ==
    /\ fpc = "call"
    /\ IF validateFieldPanics(Interface(fin.value), fin.tag)
       THEN fpc' = "panic" /\ UNCHANGED <<fout, ftrace>>
       ELSE /\ fout' = validateField(fin.name, Interface(fin.value), fin.tag)
            /\ ftrace' = fieldTrace(fin.name, Interface(fin.value), fin.tag)
            /\ fpc' = "done"
    /\ UNCHANGED <<data, pc, idx, errors, result, applied, fin, recs, who, outs,
                 goVars, configVars, idVars>>

NextField == ValidateFieldRun

SpecField == InitField /\ [][NextField]_vars

(***************************************************************************)
(* One validator used again and again: a caller holding two records calls  *)
(* Validate on one of them, takes the result, and calls again.  The        *)
(* validator is a struct without fields and the package has no variables,  *)
(* so what a call leaves behind is the last value of its own locals.       *)
(***************************************************************************)
\* Largest number of calls the caller makes.
MaxCalls == 3

\* the second record of the caller
OtherRecords ==
    { Target("Struct", FALSE, "", <<F("Name", TRUE, "required,min=2", StringV(""))>>),
      Target("Ptr", FALSE, "Struct", <<F("Age", TRUE, "min=18,max=120", IntV("Int", 30))>>),
      Target("Ptr", TRUE, "Struct", <<>>) }

InitReuse ==
    /\ ValidateIdle
    /\ FieldIdle
    /\ recs \in {<<r, o>> : r \in Targets, o \in OtherRecords}
    /\ who = <<>> /\ outs = <<>>
    /\ NoGoroutines
    /\ NoConfig
    /\ NoIds

\* validator.Validate(recs[i]): the call; its locals are not yet set
CallerCalls ==
    /\ pc = "idle"
    /\ Len(who) < MaxCalls
    /\ \E i \in 1..Len(recs) :
          /\ data' = recs[i]
          /\ who' = Append(who, i)
    /\ pc' = "call"
    /\ result' = NoResult
    /\ applied' = <<>>
    /\ UNCHANGED <<idx, errors, fin, fpc, fout, ftrace, recs, outs,
                 goVars, configVars, idVars>>

\* err := validator.Validate(...): the caller takes what the call returned
CallerTakesResult ==
    /\ pc = "done"
    /\ Len(outs) < Len(who)
    /\ outs' = Append(outs, result)
    /\ pc' = "idle"
    /\ UNCHANGED <<data, idx, errors, result, applied, fin, fpc, fout, ftrace, recs, who,
                 goVars, configVars, idVars>>

NextReuse ==
    CallerCalls \/ ValidateTarget \/ ValidateNextField \/ ValidateReturn \/ CallerTakesResult

SpecReuse == InitReuse /\ [][NextReuse]_vars

(***************************************************************************)
(* Validate called by several goroutines at once on one validator, each    *)
(* with a record of its own.  calls[g] holds the argument and the locals   *)
(* value/typ (data), the position (pc), i (idx) and the returned error of  *)
(* the call of goroutine g; its slice `errors` is gerrors[errorsOf(g)].    *)
(* A step of the model is one step of one call, so that the calls          *)
(* interleave in every order.                                              *)
(***************************************************************************)
\* Number of goroutines calling Validate at once.
NumCallers == 2

Goroutines == 1..NumCallers

\* the slice `errors` shared by all calls, as a field of the validator would be
errorsOfShared(g) == 1

\* errors := []string{} declares a slice local to the call
errorsOf(g) == g

\* the records of the concurrent callers
ConcurrentRecords ==
    { Target("Struct", FALSE, "", <<F("Name", TRUE, "required,min=2", StringV("")),
                                    F("Age", TRUE, "min=18,max=120", IntV("Int", 17))>>),
      Target("Ptr", FALSE, "Struct", <<F("Name", TRUE, "required,min=2", StringV("Al")),
                                       F("Age", TRUE, "min=18,max=120", IntV("Int", 121))>>),
      Target("Struct", FALSE, "", <<F("Code", TRUE, "bogus,min=3", StringV("x"))>>),
      Target("Struct", FALSE, "", <<F("Name", TRUE, "required,min=2", StringV("Al"))>>),
      Target("Ptr", TRUE, "Struct", <<>>),
      Target("String", FALSE, "", <<>>) }

Call(d) == [data |-> d, pc |-> "call", idx |-> 0, result |-> NoResult]

InitConcurrent ==
    /\ ValidateIdle
    /\ FieldIdle
    /\ CallerIdle
    /\ NoConfig
    /\ NoIds
    /\ calls \in [Goroutines -> {Call(d) : d \in ConcurrentRecords}]
    /\ gerrors = [g \in Goroutines |-> <<>>]

\* lines 20-37 in goroutine g
GoValidateTarget(g) ==
    /\ calls[g].pc = "call"
    /\ LET err == targetCheck(calls[g].data)
       IN  IF err.isNil
           THEN /\ calls' = [calls EXCEPT ![g].pc = "loop"]
                /\ gerrors' = [gerrors EXCEPT ![errorsOf(g)] = <<>>]
           ELSE /\ calls' = [calls EXCEPT ![g].pc = "done", ![g].result = err]
                /\ gerrors' = gerrors
    /\ UNCHANGED <<validateVars, fieldVars, callerVars, configVars, idVars>>

\* lines 39-58 in goroutine g: one iteration of the loop over the fields
GoValidateNextField(g) ==
    /\ calls[g].pc = "loop"
    /\ calls[g].idx < Len(calls[g].data.fields)
    /\ gerrors' = [gerrors EXCEPT ![errorsOf(g)] =
                   @ \o fieldErrors(calls[g].data.fields[calls[g].idx + 1])]
    /\ calls' = [calls EXCEPT ![g].idx = @ + 1]
    /\ UNCHANGED <<validateVars, fieldVars, callerVars, configVars, idVars>>

\* lines 39 and 60-64 in goroutine g: the loop ends and Validate returns
GoValidateReturn(g) ==
    /\ calls[g].pc = "loop"
    /\ ~(calls[g].idx < Len(calls[g].data.fields))
    /\ calls' = [calls EXCEPT ![g].pc = "done",
                              ![g].result = aggregate(gerrors[errorsOf(g)])]
    /\ gerrors' = gerrors
    /\ UNCHANGED <<validateVars, fieldVars, callerVars, configVars, idVars>>

NextConcurrent ==
    \E g \in Goroutines :
        GoValidateTarget(g) \/ GoValidateNextField(g) \/ GoValidateReturn(g)

SpecConcurrent == InitConcurrent /\ [][NextConcurrent]_vars

(***************************************************************************)
(* The configuration store (package config): a map from keys to texts.     *)
(* The map is a function whose domain is the set of keys present.          *)
(***************************************************************************)
\* Largest number of Set calls made on the store.
MaxSets == 3

\* the keys and the texts tried
ConfigKeys == {"key", "nonexistent", ""}
ConfigTexts == {"value", "42", ""}

\* c.values[key] of a map: the zero value "" for a key not present
mapIndex(m, key) == IF key \in DOMAIN m THEN m[key] ELSE ""

\* a store that keeps the first value a key was given
mapAssignIfAbsent(m, key, value) ==
    [k \in DOMAIN m \cup {key} |-> IF k \in DOMAIN m THEN m[k] ELSE value]

\* c.values[key] = value
mapAssign(m, key, value) ==
    [k \in DOMAIN m \cup {key} |-> IF k = key THEN value ELSE m[k]]

\* NewConfig: the empty map, no call made yet
InitConfig ==
    /\ ValidateIdle
    /\ FieldIdle
    /\ CallerIdle
    /\ NoGoroutines
    /\ values = <<>> /\ sets = <<>> /\ got = NoGet /\ ret = NoCall
    /\ NoIds

\* Config.Set(key, value)
ConfigSet ==
    /\ Len(sets) < MaxSets
    /\ \E key \in ConfigKeys, value \in ConfigTexts :
          /\ values' = mapAssign(values, key, value)
          /\ sets' = Append(sets, <<key, value>>)
    /\ UNCHANGED <<validateVars, fieldVars, callerVars, goVars, got, ret, idVars>>

\* Config.Get(key)
ConfigGet ==
    /\ \E key \in ConfigKeys :
          got' = [key |-> key, value |-> mapIndex(values, key), at |-> Len(sets)]
    /\ UNCHANGED <<validateVars, fieldVars, callerVars, goVars, values, sets, ret, idVars>>

NextConfig == ConfigSet \/ ConfigGet

SpecConfig == InitConfig /\ [][NextConfig]_vars

(***************************************************************************)
(* The typed getters of the configuration store.  A Go result              *)
(* (value, error) is a record [value, err].  Durations are counted in      *)
(* milliseconds, so the units tried are ms, s, m and h; the integers tried *)
(* have few digits, so the range errors of strconv cannot occur.           *)
(***************************************************************************)
\* strconv.Quote for the texts tried (no character that needs an escape)
Quote(s) == "\"" \o s \o "\""

\* strconv.Atoi: an optional sign and then digits, nothing else
strconvAtoi(s) ==
    LET signed == s # "" /\ At(s, 1) \in {"+", "-"}
        d == IF signed THEN 2 ELSE 1
    IN  IF d > Len(s) \/ ~AllIn(s, d, Len(s), Digit)
        THEN [value |-> 0,
              err |-> Errorf("strconv.Atoi: parsing " \o Quote(s) \o ": invalid syntax")]
        ELSE [value |-> IF signed /\ At(s, 1) = "-"
                        THEN 0 - DecimalValue(s, d, Len(s))
                        ELSE DecimalValue(s, d, Len(s)),
              err |-> Nil]

\* strconv.ParseBool
strconvParseBool(s) ==
    IF s \in {"1", "t", "T", "TRUE", "true", "True"} THEN [value |-> TRUE, err |-> Nil]
    ELSE IF s \in {"0", "f", "F", "FALSE", "false", "False"} THEN [value |-> FALSE, err |-> Nil]
    ELSE [value |-> FALSE,
          err |-> Errorf("strconv.ParseBool: parsing " \o Quote(s) \o ": invalid syntax")]

\* unitMap of package time, in milliseconds
unitMap == [ms |-> 1, s |-> 1000, m |-> 60000, h |-> 3600000]

RECURSIVE Pow10(_)
Pow10(k) == IF k = 0 THEN 1 ELSE 10 * Pow10(k - 1)

\* length of the longest prefix of s[i..] that holds neither a digit nor a dot
RECURSIVE UnitRun(_, _)
UnitRun(s, i) ==
    IF i <= Len(s) /\ At(s, i) \notin (Digit \cup {"."}) THEN 1 + UnitRun(s, i + 1) ELSE 0

\* the loop of time.ParseDuration over the terms [0-9]*(\.[0-9]*)?[a-z]+ of
\* s[i..]: ok with the sum d, or the error kind met
RECURSIVE durationTerms(_, _)
durationTerms(s, i) ==
    IF i > Len(s) THEN [ok |-> TRUE, d |-> 0, why |-> ""]
    ELSE IF At(s, i) \notin (Digit \cup {"."}) THEN [ok |-> FALSE, d |-> 0, why |-> "invalid"]
    ELSE LET pre == DigitRun(s, i)
             dot == i + pre <= Len(s) /\ At(s, i + pre) = "."
             f == IF dot THEN i + pre + 1 ELSE i + pre
             post == IF dot THEN DigitRun(s, f) ELSE 0
             u == f + post
             ulen == UnitRun(s, u)
             unit == SubSeq(s, u, u + ulen - 1)
         IN  IF pre = 0 /\ post = 0 THEN [ok |-> FALSE, d |-> 0, why |-> "invalid"]
             ELSE IF ulen = 0 THEN [ok |-> FALSE, d |-> 0, why |-> "missing unit"]
             ELSE IF unit \notin DOMAIN unitMap
                  THEN [ok |-> FALSE, d |-> 0, why |-> "unknown unit " \o Quote(unit)]
             ELSE LET rest == durationTerms(s, u + ulen)
                      v == DecimalValue(s, i, i + pre - 1) * unitMap[unit]
                           + (DecimalValue(s, f, f + post - 1) * unitMap[unit]) \div Pow10(post)
                  IN  IF rest.ok THEN [ok |-> TRUE, d |-> v + rest.d, why |-> ""] ELSE rest

\* time.ParseDuration
timeParseDuration(s) ==
    LET signed == s # "" /\ At(s, 1) \in {"+", "-"}
        body == IF signed THEN SubSeq(s, 2, Len(s)) ELSE s
        terms == durationTerms(body, 1)
    IN  IF body = "0" THEN [value |-> 0, err |-> Nil]
        ELSE IF body = ""
        THEN [value |-> 0, err |-> Errorf("time: invalid duration " \o Quote(s))]
        ELSE IF ~terms.ok
        THEN [value |-> 0,
              err |-> Errorf("time: " \o (IF terms.why = "invalid" THEN "invalid duration "
                                          ELSE terms.why \o " in duration ") \o Quote(s))]
        ELSE [value |-> IF signed /\ At(s, 1) = "-" THEN 0 - terms.d ELSE terms.d,
              err |-> Nil]

\* the typed getter named kind ("int", "bool", "duration") on the map m:
\* lines 423-435, 447-459 and 471-483, alike but for the parser and the zero
typedParse(kind, text) ==
    CASE kind = "int" -> strconvAtoi(text)
      [] kind = "bool" -> strconvParseBool(text)
      [] kind = "duration" -> timeParseDuration(text)

typedGet(kind, m, key) ==
    IF key \notin DOMAIN m
    THEN [value |-> typedParse(kind, "").value,
          err |-> Errorf("configuration key '" \o key \o "' not found")]
    ELSE LET parsed == typedParse(kind, m[key])
         IN  IF ~parsed.err.isNil
             THEN [value |-> typedParse(kind, "").value,
                   err |-> Errorf("failed to parse '" \o key \o "' as " \o kind \o ": "
                                  \o parsed.err.msg)]
             ELSE [value |-> parsed.value, err |-> Nil]

GetInt(m, key) == typedGet("int", m, key)
GetBool(m, key) == typedGet("bool", m, key)
GetDuration(m, key) == typedGet("duration", m, key)

\* a getter with default that hands on whatever the typed getter returned
typedGetWithDefaultIgnoresErr(kind, m, key, defaultValue) == typedGet(kind, m, key).value

\* GetIntWithDefault, GetBoolWithDefault, GetDurationWithDefault
typedGetWithDefault(kind, m, key, defaultValue) ==
    LET r == typedGet(kind, m, key)
    IN  IF ~r.err.isNil THEN defaultValue ELSE r.value

\* Largest number of Set calls made before the typed getters are tried.
MaxTypedSets == 1

\* the texts stored, and the defaults handed over, per type
IntTexts == {"42", "-7", "+5", "0", "not_a_number", "", "5abc", " 5", "-"}
BoolTexts == {"true", "false", "1", "T", "FALSE", "yes", "not_a_bool", "tRUE"}
DurationTexts == {"30s", "1h30m", "1.5h", "-5m", "500ms", "abc", "30", "5x", ".s", "+2s"}
TypedTexts == IntTexts \cup BoolTexts \cup DurationTexts
TypedKeys == {"valid", "nonexistent"}
Defaults(kind) ==
    CASE kind = "int" -> {100, 0}
      [] kind = "bool" -> {TRUE, FALSE}
      [] kind = "duration" -> {5000, 0}
Kinds == {"int", "bool", "duration"}

\* Config.Set("valid", text)
ConfigSetTyped ==
    /\ Len(sets) < MaxTypedSets
    /\ \E value \in TypedTexts :
          /\ values' = mapAssign(values, "valid", value)
          /\ sets' = Append(sets, <<"valid", value>>)
    /\ UNCHANGED <<validateVars, fieldVars, callerVars, goVars, got, ret, idVars>>

\* Config.GetInt(key), GetBool(key), GetDuration(key)
ConfigTypedGet ==
    /\ \E kind \in Kinds, key \in TypedKeys :
          LET r == typedGet(kind, values, key)
          IN  ret' = [op |-> "Get", kind |-> kind, key |-> key, def |-> r.value,
                      value |-> r.value, err |-> r.err, at |-> Len(sets)]
    /\ UNCHANGED <<validateVars, fieldVars, callerVars, goVars, values, sets, got, idVars>>

\* Config.GetIntWithDefault(key, d), GetBoolWithDefault, GetDurationWithDefault
ConfigTypedGetWithDefault ==
    /\ \E kind \in Kinds, key \in TypedKeys :
          \E d \in Defaults(kind) :
              ret' = [op |-> "GetWithDefault", kind |-> kind, key |-> key, def |-> d,
                      value |-> typedGetWithDefault(kind, values, key, d),
                      err |-> Nil, at |-> Len(sets)]
    /\ UNCHANGED <<validateVars, fieldVars, callerVars, goVars, values, sets, got, idVars>>

NextTyped == ConfigSetTyped \/ ConfigTypedGet \/ ConfigTypedGetWithDefault

SpecTyped == InitConfig /\ [][NextTyped]_vars

\* Config.Exists(key)
Exists(m, key) == key \in DOMAIN m

\* the loop of Config.Validate over requiredKeys: the slice missing
RECURSIVE missingKeys(_, _)
missingKeys(m, requiredKeys) ==
    IF requiredKeys = <<>> THEN <<>>
    ELSE (IF ~Exists(m, Head(requiredKeys)) \/ mapIndex(m, Head(requiredKeys)) = ""
          THEN <<Head(requiredKeys)>> ELSE <<>>)
         \o missingKeys(m, Tail(requiredKeys))

\* Config.Validate asking only whether the keys exist
configValidateExistsOnly(m, requiredKeys) ==
    LET missing == SelectSeq(requiredKeys, LAMBDA key : ~Exists(m, key))
    IN  IF Len(missing) > 0
        THEN Errorf("missing required configuration keys: " \o Join(missing, ", "))
        ELSE Nil

\* Config.Validate(requiredKeys)
configValidate(m, requiredKeys) ==
    LET missing == missingKeys(m, requiredKeys)
    IN  IF Len(missing) > 0
        THEN Errorf("missing required configuration keys: " \o Join(missing, ", "))
        ELSE Nil

\* the lists of required keys tried
RequiredLists ==
    { <<>>, <<"key">>, <<"key", "nonexistent">>, <<"nonexistent", "key">>,
      <<"", "key", "nonexistent">>, <<"key", "key">> }

\* Config.Validate(requiredKeys)
ConfigValidate ==
    /\ \E requiredKeys \in RequiredLists :
          ret' = [op |-> "Validate", kind |-> "", key |-> requiredKeys, def |-> "",
                  value |-> "", err |-> configValidate(values, requiredKeys),
                  at |-> Len(sets)]
    /\ UNCHANGED <<validateVars, fieldVars, callerVars, goVars, values, sets, got, idVars>>

\* Config.Exists(key)
ConfigExists ==
    /\ \E key \in ConfigKeys :
          ret' = [op |-> "Exists", kind |-> "", key |-> key, def |-> "",
                  value |-> Exists(values, key), err |-> Nil, at |-> Len(sets)]
    /\ UNCHANGED <<validateVars, fieldVars, callerVars, goVars, values, sets, got, idVars>>

NextRequired == ConfigSet \/ ConfigValidate \/ ConfigExists

SpecRequired == InitConfig /\ [][NextRequired]_vars

(***************************************************************************)
(* The ID generators (providers/id_generator.go).                          *)
(***************************************************************************)
\* Largest number of SimpleIDGenerators created.
MaxGenerators == 2
\* Largest number of Generate calls made on one SimpleIDGenerator.
MaxGenerate == 10

\* the prefixes generators are created with
Prefixes == {"simple", "test", ""}

\* NewSimpleIDGenerator(prefix)
NewSimpleIDGenerator(prefix) == [counter |-> 0, prefix |-> prefix]

\* fmt.Sprintf("%s-%d", prefix, n)
simpleID(prefix, n) == prefix \o "-" \o DecimalText(n)

\* SimpleIDGenerator.Generate formatting the counter before it is incremented
simpleGenerateFormatsFirst(g) ==
    [gen |-> [g EXCEPT !.counter = @ + 1], id |-> simpleID(g.prefix, g.counter)]

\* SimpleIDGenerator.Generate on the generator g, run alone: the generator
\* afterwards and the ID returned
simpleGenerate(g) ==
    LET after == [g EXCEPT !.counter = @ + 1]
    IN  [gen |-> after, id |-> simpleID(after.prefix, after.counter)]

InitProviders ==
    /\ ValidateIdle
    /\ FieldIdle
    /\ CallerIdle
    /\ NoGoroutines
    /\ NoConfig
    /\ NoIds

\* NewSimpleIDGenerator(prefix)
SimpleNew ==
    /\ Len(gens) < MaxGenerators
    /\ \E prefix \in Prefixes :
          /\ gens' = Append(gens, NewSimpleIDGenerator(prefix))
          /\ ids' = Append(ids, <<>>)
    /\ UNCHANGED <<validateVars, fieldVars, callerVars, goVars, configVars, regs, hexgen>>

\* one whole call of Generate on one of the generators
SimpleGenerate ==
    /\ \E i \in 1..Len(gens) :
          /\ gens[i].counter < MaxGenerate
          /\ LET r == simpleGenerate(gens[i])
             IN  /\ gens' = [gens EXCEPT ![i] = r.gen]
                 /\ ids' = [ids EXCEPT ![i] = Append(@, r.id)]
    /\ UNCHANGED <<validateVars, fieldVars, callerVars, goVars, configVars, regs, hexgen>>

NextSimple == SimpleNew \/ SimpleGenerate

SpecSimple == InitProviders /\ [][NextSimple]_vars

\* Largest length a HexIDGenerator is asked for, besides the 32 of the tests.
MaxHexLength == 18

\* the lengths NewHexIDGenerator is called with
HexLengths == (-1..MaxHexLength) \cup {32}

\* hex.EncodeToString of one byte
hexByte(b) ==
    At("0123456789abcdef", (b \div 16) + 1) \o At("0123456789abcdef", (b % 16) + 1)

\* hex.EncodeToString(bytes): two lowercase digits per byte
RECURSIVE hexEncodeToString(_)
hexEncodeToString(bytes) ==
    IF bytes = <<>> THEN "" ELSE hexByte(Head(bytes)) \o hexEncodeToString(Tail(bytes))

\* fmt.Sprintf("%x", n) for the positive int64 n given by its 8 bytes, most
\* significant first: its hexadecimal digits without leading zeros
RECURSIVE trimZeros(_)
trimZeros(s) == IF Len(s) > 1 /\ At(s, 1) = "0" THEN trimZeros(SubSeq(s, 2, Len(s))) ELSE s
sprintfHex(n) == trimZeros(hexEncodeToString(n))

\* the slice expression s[:n]: a run-time panic when n exceeds len(s)
sliceTo(s, n) ==
    IF n < 0 \/ n > Len(s) THEN [panicked |-> TRUE, out |-> ""]
    ELSE [panicked |-> FALSE, out |-> SubSeq(s, 1, n)]

\* what rand.Read can leave in a slice of n bytes
RandomBytes(n) ==
    { [i \in 1..n |-> (b + (i - 1) * step) % 256] : b \in {0, 15, 165, 255}, step \in {0, 37} }

\* what time.Now().UnixNano() can return, as 8 bytes: instants of the
\* years 2006 to 2262, whose first byte is between 16 and 127
UnixNanos ==
    { <<24, 213, 183, 194, 164, 243, 230, 16>>, <<16, 0, 0, 0, 0, 0, 0, 0>>,
      <<127, 255, 255, 255, 255, 255, 255, 255>> }

\* NewHexIDGenerator(length)
NewHexIDGenerator(length) == [length |-> IF length <= 0 THEN 16 ELSE length]

\* HexIDGenerator.Generate: bytes is what rand.Read left in the slice, failed
\* whether it returned an error, nano the clock read on that path
hexGenerate(g, bytes, failed, nano) ==
    IF failed THEN sliceTo(sprintfHex(nano), g.length)
    ELSE sliceTo(hexEncodeToString(bytes), g.length)

\* NewHexIDGenerator(length)
HexNew ==
    /\ \E length \in HexLengths :
          hexgen' = [requested |-> length, length |-> NewHexIDGenerator(length).length,
                     called |-> FALSE, out |-> "", panicked |-> FALSE]
    /\ UNCHANGED <<validateVars, fieldVars, callerVars, goVars, configVars, gens, ids, regs>>

\* one call of Generate on the HexIDGenerator
HexGenerate ==
    /\ hexgen.length > 0
    /\ \E bytes \in RandomBytes(hexgen.length \div 2), failed \in BOOLEAN, nano \in UnixNanos :
          LET r == hexGenerate(hexgen, bytes, failed, nano)
          IN  hexgen' = [hexgen EXCEPT !.called = TRUE, !.out = r.out,
                                       !.panicked = r.panicked]
    /\ UNCHANGED <<validateVars, fieldVars, callerVars, goVars, configVars, gens, ids, regs>>

NextHex == HexNew \/ HexGenerate

SpecHex == InitProviders /\ [][NextHex]_vars

\* Number of goroutines that share one SimpleIDGenerator.
NumRacers == 2
\* Largest number of Generate calls each of them makes.
MaxRaceCalls == 2

Racers == 1..NumRacers

\* one SimpleIDGenerator shared by goroutines that have not called it yet
InitRace ==
    /\ ValidateIdle
    /\ FieldIdle
    /\ CallerIdle
    /\ NoGoroutines
    /\ NoConfig
    /\ \E prefix \in Prefixes : gens = <<NewSimpleIDGenerator(prefix)>>
    /\ ids = << <<>> >>
    /\ regs = [g \in Racers |-> [pc |-> "idle", r |-> 0, done |-> 0]]
    /\ hexgen = NoHex

\* g.counter++, first half: the goroutine reads the counter
RaceLoad(g) ==
    /\ regs[g].pc = "idle"
    /\ regs[g].done < MaxRaceCalls
    /\ regs' = [regs EXCEPT ![g].pc = "loaded", ![g].r = gens[1].counter]
    /\ UNCHANGED <<validateVars, fieldVars, callerVars, goVars, configVars, gens, ids, hexgen>>

\* g.counter++, second half: the goroutine writes back what it read plus one
RaceStore(g) ==
    /\ regs[g].pc = "loaded"
    /\ gens' = [gens EXCEPT ![1].counter = regs[g].r + 1]
    /\ regs' = [regs EXCEPT ![g].pc = "stored"]
    /\ UNCHANGED <<validateVars, fieldVars, callerVars, goVars, configVars, ids, hexgen>>

\* return fmt.Sprintf("%s-%d", g.prefix, g.counter): the unsynchronised read
\* sees the counter as it is now, or the value this goroutine just wrote
RaceReturn(g) ==
    /\ regs[g].pc = "stored"
    /\ \E n \in {gens[1].counter, regs[g].r + 1} :
          ids' = [ids EXCEPT ![1] = Append(@, simpleID(gens[1].prefix, n))]
    /\ regs' = [regs EXCEPT ![g].pc = "idle", ![g].done = @ + 1]
    /\ UNCHANGED <<validateVars, fieldVars, callerVars, goVars, configVars, gens, hexgen>>

NextRace == \E g \in Racers : RaceLoad(g) \/ RaceStore(g) \/ RaceReturn(g)

SpecRace == InitRace /\ [][NextRace]_vars

(***************************************************************************)
(* The claims.                                                             *)
(***************************************************************************)
\* a null record reference: the untyped nil, or a nil pointer of any type
IsNullReference(d) == d.kind = "Invalid" \/ (d.kind = "Ptr" /\ d.isNil)

\* the kind of the target after at most one pointer dereference
KindAfterDeref(d) == IF d.kind = "Ptr" THEN d.elemKind ELSE d.kind

\* a struct passed by value or by non-nil pointer
IsStructTarget(d) ==
    d.kind = "Struct" \/ (d.kind = "Ptr" /\ ~d.isNil /\ d.elemKind = "Struct")

\* C1: Validate applied to any null record reference (a nil pointer of any
\* pointed-to type, or the untyped nil value) fails with NilTarget and never
\* with NotAStruct.
C1_NullTargetFailsNilTarget ==
    (pc = "done" /\ IsNullReference(data)) => result = ErrNilTarget

\* C2: Validate applied to a non-null value whose kind, after at most one
\* pointer dereference, is not a struct fails with NotAStruct and evaluates
\* no rule: it never enters the loop over the fields.
C2_NonStructFailsNotAStruct ==
    (~IsNullReference(data) /\ KindAfterDeref(data) # "Struct") =>
        /\ applied = <<>>
        /\ pc # "loop"
        /\ pc = "done" => result = ErrNotAStruct

\* C2 witness: a non-nil pointer to a pointer was refused as not a struct
C2_Witness ==
    /\ pc = "done"
    /\ data.kind = "Ptr" /\ ~data.isNil /\ data.elemKind = "Ptr"
    /\ result = ErrNotAStruct

\* a field Validate looks at: exported, with a non-empty validate tag
Checked(f) == IsExported(f) /\ f.tag.present /\ f.tag.value # ""

\* the outcome of every rule declared on field f, for the value f holds
RuleOutcomes(f) == fieldTrace(f.name, Interface(f.value), f.tag.value)

\* some rule declared on field f fails for the value f holds
SomeRuleFails(f) == \E k \in 1..Len(RuleOutcomes(f)) : ~RuleOutcomes(f)[k].err.isNil

\* the violation messages of field f, in rule declaration order
Violations(f) == IF Checked(f) THEN Messages(RuleOutcomes(f)) ELSE <<>>

\* the violation messages of the fields fs, in field declaration order
RECURSIVE AllViolations(_)
AllViolations(fs) ==
    IF fs = <<>> THEN <<>> ELSE Violations(Head(fs)) \o AllViolations(Tail(fs))

AggregatePrefix == "validation failed: "

\* C3: for every struct record, by value or by non-nil pointer, Validate
\* returns no error if and only if no rule declared on an exported field with
\* a non-empty validate tag fails; otherwise it returns one aggregate error,
\* and it returns nothing before every field has been looked at.
C3_NilIffNoRuleFails ==
    IsStructTarget(data) =>
        /\ pc = "done" =>
            /\ result.isNil <=>
                 \A i \in 1..Len(data.fields) :
                    Checked(data.fields[i]) => ~SomeRuleFails(data.fields[i])
            /\ ~result.isNil => HasPrefix(result.msg, AggregatePrefix)
            /\ result # NoResult
        /\ pc # "done" => result = NoResult
        /\ result # NoResult => idx = Len(data.fields)

\* C3 witness: a record whose first field is valid and whose second is not
C3_Witness ==
    /\ pc = "done" /\ IsStructTarget(data) /\ Len(data.fields) = 2
    /\ Checked(data.fields[1]) /\ ~SomeRuleFails(data.fields[1])
    /\ Checked(data.fields[2]) /\ SomeRuleFails(data.fields[2])
    /\ ~result.isNil

\* C4: when Validate fails on a struct, the aggregate error holds every
\* violation message exactly once, in field declaration order and within a
\* field in rule declaration order, consecutive messages separated by "; ";
\* every field with a violation has its messages in it.
C4_AggregateListsEveryViolation ==
    (pc = "done" /\ IsStructTarget(data) /\ ~result.isNil) =>
        /\ HasPrefix(result.msg, AggregatePrefix)
        /\ Split(SubSeq(result.msg, Len(AggregatePrefix) + 1, Len(result.msg)), "; ")
             = AllViolations(data.fields)
        /\ \A i \in 1..Len(data.fields) :
              \A k \in 1..Len(Violations(data.fields[i])) :
                 Contains(result.msg, Violations(data.fields[i])[k])

\* C4 witness: violations on two distinct fields, one of them with two
C4_Witness ==
    /\ pc = "done" /\ IsStructTarget(data) /\ Len(data.fields) = 2
    /\ Len(Violations(data.fields[1])) = 2
    /\ Len(Violations(data.fields[2])) = 1
    /\ result.msg = AggregatePrefix \o Violations(data.fields[1])[1] \o "; "
                    \o Violations(data.fields[1])[2] \o "; "
                    \o Violations(data.fields[2])[1]

\* the rules a declaration lists: its pieces between commas that are not blank
RECURSIVE NonBlank(_)
NonBlank(pieces) ==
    IF pieces = <<>> THEN <<>>
    ELSE (IF TrimSpace(Head(pieces)) = "" THEN <<>> ELSE <<TrimSpace(Head(pieces))>>)
         \o NonBlank(Tail(pieces))

ListedRules(tag) == NonBlank(Split(tag, ","))

\* the name of a rule: its text before the first "="
RuleNameOf(rule) ==
    IF Contains(rule, "=") THEN SubSeq(rule, 1, Index(rule, "=") - 1) ELSE rule

KnownRules == {"required", "min", "max", "email", "url", "pattern"}

\* what the rules of a declaration yield when each is the field's only rule
RECURSIVE OneByOne(_, _, _)
OneByOne(name, value, rules) ==
    IF rules = <<>> THEN <<>>
    ELSE validateField(name, value, Head(rules)) \o OneByOne(name, value, Tail(rules))

\* C5: within one field every listed rule is evaluated whatever the outcome
\* of the others: the field's messages are those each rule yields as the
\* field's only rule, in order, so k failing rules give exactly k messages.
C5_NoShortCircuit ==
    fpc = "done" =>
        LET rules == ListedRules(fin.tag)
            alone == [k \in 1..Len(rules) |->
                        validateField(fin.name, Interface(fin.value), rules[k])]
        IN  /\ fout = OneByOne(fin.name, Interface(fin.value), rules)
            /\ Len(fout) = Cardinality({k \in 1..Len(rules) : alone[k] # <<>>})
            /\ \A k \in 1..Len(rules) : Len(alone[k]) <= 1

\* C5 witness: a declaration of three rules that all fail gave three messages
C5_Witness ==
    /\ fpc = "done"
    /\ Len(ListedRules(fin.tag)) = 3
    /\ Len(fout) = 3

\* C6: a rule whose name is none of required, min, max, email, url, pattern
\* fails for every field value of every kind with the message
\* "unknown validation rule: <name>"; it is never passed over.
C6_UnknownRuleAlwaysFails ==
    fpc = "done" =>
        LET rules == ListedRules(fin.tag)
        IN  /\ \A k \in 1..Len(rules) :
                 RuleNameOf(rules[k]) \notin KnownRules =>
                    \E j \in 1..Len(fout) :
                       fout[j] = "unknown validation rule: " \o RuleNameOf(rules[k])
            /\ (Len(rules) = 1 /\ RuleNameOf(rules[1]) \notin KnownRules) =>
                 fout = <<"unknown validation rule: " \o RuleNameOf(rules[1])>>

\* C6 witness: the unknown rule failed on a nested record
C6_Witness ==
    /\ fpc = "done"
    /\ fin.tag = "unknown_rule" /\ fin.value.kind = "Struct"
    /\ fout = <<"unknown validation rule: unknown_rule">>

\* the applyRule calls made for the field of index i (0-based), in order
RECURSIVE CallsOf(_, _)
CallsOf(trace, i) ==
    IF trace = <<>> THEN <<>>
    ELSE (IF Head(trace).field = i THEN <<Head(trace)>> ELSE <<>>) \o CallsOf(Tail(trace), i)

\* the names of the rules a declaration lists, in order
RuleNames(tag) == [k \in 1..Len(ListedRules(tag)) |-> RuleNameOf(ListedRules(tag)[k])]

HasUnknownRule(f) ==
    Checked(f) /\ \E k \in 1..Len(RuleNames(f.tag.value)) :
                     RuleNames(f.tag.value)[k] \notin KnownRules

\* C7 as stated: once an unrecognized rule name is met in a field's
\* declaration, the rules listed after it in that declaration are not
\* evaluated and contribute no violation message.
C7_UnknownRuleEndsTheField ==
    \A a, b \in 1..Len(applied) :
        (a < b /\ applied[a].field = applied[b].field) =>
            applied[a].ruleName \in KnownRules

\* C7 amended: an unrecognized rule name is reported and ends nothing: every
\* rule the declaration lists, those after the unknown one included, is
\* evaluated in order and contributes its message when it fails, and the
\* fields declared after it are evaluated too.
C7_UnknownRuleEndsNothing ==
    (pc = "done" /\ IsStructTarget(data)) =>
        /\ \A i \in 1..Len(data.fields) :
              LET f == data.fields[i]
                  made == CallsOf(applied, i - 1)
              IN  Checked(f) =>
                     /\ [k \in 1..Len(made) |-> made[k].ruleName] = RuleNames(f.tag.value)
                     /\ \A k \in 1..Len(made) :
                           made[k].failed <=>
                              validateField(f.name, Interface(f.value),
                                            ListedRules(f.tag.value)[k]) # <<>>
        /\ Len(errors) = Cardinality({k \in 1..Len(applied) : applied[k].failed})
        /\ \A i \in 1..Len(data.fields) :
              \A k \in 1..Len(ListedRules(data.fields[i].tag.value)) :
                 LET f == data.fields[i]
                     alone == validateField(f.name, Interface(f.value),
                                            ListedRules(f.tag.value)[k])
                 IN  (HasUnknownRule(f) /\ alone # <<>>) =>
                        Contains(result.msg, alone[1])

\* C7 witness: a rule listed after an unknown one failed and is reported
\* beside the unknown-rule failure, and the next field was evaluated
C7_Witness ==
    /\ pc = "done" /\ Len(data.fields) = 2
    /\ \E a, b, c \in 1..Len(applied) :
          /\ a < b /\ applied[a].field = 0 /\ applied[b].field = 0
          /\ applied[a].ruleName \notin KnownRules
          /\ applied[b].ruleName = "min" /\ applied[b].failed
          /\ applied[c].field = 1
    /\ Contains(result.msg, "unknown validation rule: bogus; field 'Code' must be at least 3 characters")

\* C8: Validate evaluates no rule on an unexported field, whatever its
\* validate tag, nor on a field with no validate tag or an empty one: every
\* rule evaluated belongs to an exported field with a non-empty tag,
\* every message comes from a rule that was evaluated, and the value of a
\* skipped field is not read (reading an unexported one would panic).
C8_SkippedFieldsContributeNothing ==
    /\ pc # "panic"
    /\ \A k \in 1..Len(applied) :
          LET f == data.fields[applied[k].field + 1]
          IN  /\ At(f.name, 1) \in Upper
              /\ f.tag.present /\ f.tag.value # ""
    /\ pc \in {"loop", "done"} =>
          Len(errors) = Cardinality({k \in 1..Len(applied) : applied[k].failed})
    /\ (pc = "done" /\ IsStructTarget(data)
        /\ \A i \in 1..Len(data.fields) : ~Checked(data.fields[i])) => result = Nil

\* C8 witness: a record made of an unexported field whose declaration fails
\* and of a field with an empty declaration passed
C8_Witness ==
    /\ pc = "done" /\ Len(data.fields) = 2
    /\ data.fields[1].name = "secret" /\ data.fields[1].tag.value = "required,bogus"
    /\ data.fields[1].value = StringV("")
    /\ data.fields[2].tag.present /\ data.fields[2].tag.value = ""
    /\ result = Nil

\* the values rule required refuses: the empty text, the empty sequence,
\* array or mapping, the nil pointer, the nil interface, the absent value
IsEmptyValue(v) ==
    \/ v.kind = "String" /\ v.s = ""
    \/ v.kind \in {"Slice", "Array", "Map"} /\ v.n = 0
    \/ v.kind = "Ptr" /\ v.isNil
    \/ v.kind = "Interface" /\ v.isNil
    \/ v.kind = "Invalid"

\* C9: rule required fails, with the message "field '<name>' is required",
\* if and only if the value is an empty text, an empty sequence, array or
\* mapping, a nil pointer or nil interface, or an absent value; every other
\* value (integer 0, boolean false, a nested record, ...) passes.
C9_RequiredFailsIffEmpty ==
    (fpc = "done" /\ fin.tag = "required") =>
        fout = IF IsEmptyValue(fin.value)
               THEN <<"field '" \o fin.name \o "' is required">>
               ELSE <<>>

\* C9 witness: required failed on a nil interface field
C9_Witness ==
    /\ fpc = "done" /\ fin.tag = "required" /\ fin.name = "Name"
    /\ fin.value = IfaceNilV
    /\ fout = <<"field 'Name' is required">>

\* what rule min and max measure: the length of a text, the length of a
\* sequence or array, the value of a signed integer
MeasuredKinds == {"String", "Slice", "Array"} \cup SignedKinds
Measure(v) == IF v.kind = "String" THEN Len(v.s) ELSE v.n

\* C10: rule min=n, n a decimal integer, passes if and only if the text
\* length, the sequence length or the integer value of the field is >= n:
\* the bound n itself passes and n-1 fails.
C10_MinPassesIffAtLeast ==
    fpc = "done" =>
        \A n \in (-1)..MaxMeasure :
            (fin.tag = "min=" \o DecimalText(n) /\ fin.value.kind \in MeasuredKinds) =>
                /\ fout = <<>> <=> Measure(fin.value) >= n
                /\ Len(fout) <= 1

\* C10 witness: min=10 refused a sequence of 9 items
C10_Witness ==
    /\ fpc = "done" /\ fin.tag = "min=10"
    /\ fin.value.kind = "Slice" /\ fin.value.n = 9
    /\ fout = <<"field '" \o fin.name \o "' must have at least 10 items">>

\* C11: rule max=n, n a decimal integer, passes if and only if the text
\* length, the sequence length or the integer value of the field is <= n:
\* the bound n itself passes and n+1 fails.
C11_MaxPassesIffAtMost ==
    fpc = "done" =>
        \A n \in (-1)..MaxMeasure :
            (fin.tag = "max=" \o DecimalText(n) /\ fin.value.kind \in MeasuredKinds) =>
                /\ fout = <<>> <=> Measure(fin.value) <= n
                /\ Len(fout) <= 1

\* C11 witness: max=10 refused a sequence of 11 items
C11_Witness ==
    /\ fpc = "done" /\ fin.tag = "max=10"
    /\ fin.value.kind = "Slice" /\ fin.value.n = 11
    /\ fout = <<"field '" \o fin.name \o "' must have at most 10 items">>

\* the address the claim describes: a non-empty local part of alphanumerics
\* and . _ % + -, one @, then non-empty domain labels separated by dots, the
\* last label of two or more letters
WellFormedEmail(s) ==
    LET parts == Split(s, "@")
        labels == Split(parts[2], ".")
        last == labels[Len(labels)]
    IN  /\ Len(parts) = 2
        /\ parts[1] # ""
        /\ AllIn(parts[1], 1, Len(parts[1]), AlNum \cup {".", "_", "%", "+", "-"})
        /\ Len(labels) >= 2
        /\ \A k \in 1..Len(labels) :
              labels[k] # "" /\ AllIn(labels[k], 1, Len(labels[k]), AlNum \cup {"-"})
        /\ Len(last) >= 2
        /\ AllIn(last, 1, Len(last), Alpha)

\* C12: rule email passes on a text if and only if the text is a non-empty
\* local part, '@', and non-empty domain labels separated by '.', the last
\* of two or more letters; an address with an empty domain label fails.
C12_EmailPassesIffWellFormed ==
    (fpc = "done" /\ fin.tag = "email" /\ fin.value.kind = "String") =>
        /\ fout = <<>> <=> WellFormedEmail(fin.value.s)
        /\ fout # <<>> => fout = <<"field '" \o fin.name \o "' must be a valid email address">>

\* the address the claim describes: http:// or https://, a non-empty host
\* without white space, and a path without white space
WellFormedURL(s) ==
    LET scheme == IF HasPrefix(s, "https://") THEN "https://"
                  ELSE IF HasPrefix(s, "http://") THEN "http://" ELSE ""
        rest == SubSeq(s, Len(scheme) + 1, Len(s))
        host == Split(rest, "/")[1]
    IN  /\ scheme # ""
        /\ host # ""
        /\ \A k \in 1..Len(rest) : At(rest, k) \notin Space

\* C13: rule url passes on the empty text; on a non-empty text it passes if
\* and only if the text is http:// or https://, a non-empty host without
\* white space (a host of one character as well) and an optional path
\* without white space.
C13_UrlPassesIffWellFormed ==
    (fpc = "done" /\ fin.tag = "url" /\ fin.value.kind = "String") =>
        /\ fout = <<>> <=> (fin.value.s = "" \/ WellFormedURL(fin.value.s))
        /\ fout # <<>> => fout = <<"field '" \o fin.name \o "' must be a valid URL">>

\* the regular expressions tried that parse, and the texts each one matches
WellFormedPatterns == {"^[a-z]+$", "^[a-zA-Z0-9_]+$", "a*", ""}
\* the regular expressions tried that do not parse (a class left open)
UnparsablePatterns == {"[a-z", "^[a-z$"}

PatternMatches(p, s) ==
    CASE p = "^[a-z]+$" -> s # "" /\ AllIn(s, 1, Len(s), Lower)
      [] p = "^[a-zA-Z0-9_]+$" -> s # "" /\ AllIn(s, 1, Len(s), AlNum \cup {"_"})
      [] OTHER -> TRUE

\* C14: rule pattern=<regex> on a text has three distinct outcomes: no
\* violation when the text matches; "field '<name>' does not match required
\* pattern" when the regex parses and the text does not match; "invalid
\* pattern for field '<name>': <cause>" when the regex does not parse,
\* whatever the text is.
C14_PatternThreeOutcomes ==
    (fpc = "done" /\ fin.value.kind = "String") =>
        /\ \A p \in WellFormedPatterns :
              fin.tag = "pattern=" \o p =>
                  fout = IF PatternMatches(p, fin.value.s) THEN <<>>
                         ELSE <<"field '" \o fin.name \o "' does not match required pattern">>
        /\ \A p \in UnparsablePatterns :
              fin.tag = "pattern=" \o p =>
                  /\ Len(fout) = 1
                  /\ HasPrefix(fout[1], "invalid pattern for field '" \o fin.name \o "': ")
                  /\ Len(fout[1]) > Len("invalid pattern for field '" \o fin.name \o "': ")
                  /\ fout[1] # "field '" \o fin.name \o "' does not match required pattern"

\* C14 witness: a regex that does not parse failed on a text that the
\* parsable part would match
C14_Witness ==
    /\ fpc = "done" /\ fin.tag = "pattern=[a-z" /\ fin.value = StringV("aa")
    /\ Len(fout) = 1 /\ HasPrefix(fout[1], "invalid pattern for field '")

\* the rules that take a text only, and the purpose each names in its
\* type-mismatch message
TextOnlyRules == {"email", "url", "pattern=^[a-z]+$", "pattern=[a-z", "pattern=a*"}
Purpose(tag) ==
    CASE tag = "email" -> "email" [] tag = "url" -> "URL" [] OTHER -> "pattern"

\* the messages of an ordinary violation of the three rules
OrdinaryViolation(name) ==
    {"field '" \o name \o "' must be a valid email address",
     "field '" \o name \o "' must be a valid URL",
     "field '" \o name \o "' does not match required pattern"}

\* C15: rules email, url and pattern on a value that is not a text always
\* fail with "field '<name>' must be a string for ... validation", which is
\* none of the ordinary violation messages; the value is matched against no
\* pattern (a regex that does not parse is not reported), and the exemption
\* of url for empty values does not apply.
C15_NonTextIsTypeMismatch ==
    (fpc = "done" /\ fin.tag \in TextOnlyRules /\ fin.value.kind # "String") =>
        /\ fout = <<"field '" \o fin.name \o "' must be a string for "
                    \o Purpose(fin.tag) \o " validation">>
        /\ fout[1] \notin OrdinaryViolation(fin.name)
        /\ ~HasPrefix(fout[1], "invalid pattern")

\* C15 witness: url refused the empty sequence, an empty value that is no text
C15_Witness ==
    /\ fpc = "done" /\ fin.tag = "url" /\ fin.value = SliceV(0, TRUE)
    /\ fout = <<"field '" \o fin.name \o "' must be a string for URL validation">>

\* whether rule min, or max, with the integer bound b lets the value v pass
PassesBound(rule, v, b) ==
    v.kind \in MeasuredKinds =>
        IF rule = "min" THEN Measure(v) >= b ELSE Measure(v) <= b

\* C16: for rules min and max a parameter that is no integer (the empty
\* parameter, "abc", and text with trailing non-digits such as "5abc") is
\* treated as the bound 0 and raises no parse error: the rule passes and
\* fails as min=0 or max=0 does, for every value.
C16_MalformedParameterIsZero ==
    fpc = "done" =>
        \A r \in {"min", "max"} : \A p \in {"", "abc", "5abc"} :
            fin.tag = r \o "=" \o p =>
                /\ fout = <<>> <=> PassesBound(r, fin.value, 0)
                /\ Len(fout) <= 1

\* the integer read at the start of the parameter p, blanks skipped, 0 when
\* there is none
LeadingInteger(p) ==
    CASE p = "5abc" -> 5 [] p = "-1x" -> 0 - 1 [] p = " 7" -> 7 [] OTHER -> 0

\* C16 as the code has it: a parameter at whose start no integer can be read
\* (the empty parameter, "abc", "abc5", "-") is treated as the bound 0 and
\* raises no parse error, the rule passing and failing as min=0 or max=0
\* does; a parameter that starts, after optional blanks, with an integer
\* followed by other text ("5abc", "-1x") is treated as that integer, the
\* rest being ignored.
C16_LeadingIntegerIsTheBound ==
    fpc = "done" =>
        \A r \in {"min", "max"} : \A p \in MalformedParams :
            fin.tag = r \o "=" \o p =>
                /\ fout = <<>> <=> PassesBound(r, fin.value, LeadingInteger(p))
                /\ Len(fout) <= 1
                /\ fout # <<>> => HasPrefix(fout[1], "field '" \o fin.name \o "' must ")

\* C16 witness: min=5abc refused a text of three characters, which min=0 lets pass
C16_Witness ==
    /\ fpc = "done" /\ fin.tag = "min=5abc" /\ fin.value = StringV("aaa")
    /\ fout = <<"field '" \o fin.name \o "' must be at least 5abc characters">>

\* C17: a min rule with a malformed parameter (min=abc) always passes: no
\* violation for any value of any kind, negative integers included.
C17_MalformedMinAlwaysPasses ==
    (fpc = "done" /\ fin.tag = "min=abc") => fout = <<>>

\* C17 as the code has it: a min rule in whose parameter no integer can be
\* read (min=abc, min=) is the rule min=0: it passes for every text, sequence and
\* array, every integer >= 0 and every value of another kind, and it fails,
\* with "field '<name>' must be at least <parameter>", for a negative
\* integer.
C17_MalformedMinIsMinZero ==
    fpc = "done" =>
        \A p \in {"abc", "", "abc5", "-"} :
            fin.tag = "min=" \o p =>
                fout = IF fin.value.kind \in SignedKinds /\ fin.value.n < 0
                       THEN <<"field '" \o fin.name \o "' must be at least " \o p>>
                       ELSE <<>>

\* C17 witness: min=abc refused the integer -1
C17_Witness ==
    /\ fpc = "done" /\ fin.tag = "min=abc" /\ fin.value = IntV("Int", 0 - 1)
    /\ fout = <<"field '" \o fin.name \o "' must be at least abc">>

\* C18: Validate is stateless and free of side effects: during and after a
\* call the record given is what the caller holds, unchanged, and whenever
\* the same record is validated again, after any number of calls on it or on
\* another record, the call returns the same outcome (nil, or the same
\* error text).
C18_ValidateIsStateless ==
    /\ pc # "idle" => data = recs[who[Len(who)]]
    /\ \A j, k \in 1..Len(outs) : recs[who[j]] = recs[who[k]] => outs[j] = outs[k]
    /\ \A k \in 1..Len(outs) : outs[k] # NoResult

\* C18 witness: a record that fails was validated, then another record, then
\* the first again, with the result of the first call
C18_Witness ==
    /\ who = <<1, 2, 1>> /\ Len(outs) = 3
    /\ ~outs[1].isNil /\ outs[2] # outs[1] /\ outs[3] = outs[1]
    /\ Len(recs[1].fields) = 2

\* what Validate returns for the record d when no other call is running
AloneResult(d) ==
    IF ~targetCheck(d).isNil THEN targetCheck(d) ELSE aggregate(AllViolations(d.fields))

\* each call returns what it returns alone, and while it loops its slice
\* holds the violations of the fields it has been through, and no others
EachCallAsAlone ==
    \A g \in Goroutines :
        /\ calls[g].pc = "done" => calls[g].result = AloneResult(calls[g].data)
        /\ calls[g].pc = "loop" =>
              gerrors[g] = AllViolations(SubSeq(calls[g].data.fields, 1, calls[g].idx))

\* a step writes the argument, the locals and the slice of one call only
OneCallWrites ==
    \E g \in Goroutines :
        \A h \in Goroutines \ {g} : calls'[h] = calls[h] /\ gerrors'[h] = gerrors[h]

\* C19: when several goroutines run Validate at once on one validator, each
\* on a record of its own, then under every interleaving each call returns
\* the result it returns when run alone, and no step of one call writes a
\* variable another call reads or writes.
C19_ConcurrentCallsDoNotInterfere == [](EachCallAsAlone) /\ [][OneCallWrites]_vars

\* C19 witness: two calls that both fail have returned, each with the
\* violations of its own record
C19_Witness ==
    /\ calls # <<>>
    /\ calls[1].pc = "done" /\ calls[2].pc = "done"
    /\ calls[1].data # calls[2].data
    /\ Len(calls[1].data.fields) = 2 /\ Len(calls[2].data.fields) = 2
    /\ calls[1].result = AloneResult(calls[1].data) /\ ~calls[1].result.isNil
    /\ calls[2].result = AloneResult(calls[2].data) /\ ~calls[2].result.isNil
    /\ calls[1].result # calls[2].result

\* the value of the most recent Set call for key among the calls h, the
\* empty text when h has none
RECURSIVE LastSet(_, _)
LastSet(h, key) ==
    IF h = <<>> THEN ""
    ELSE IF h[Len(h)][1] = key THEN h[Len(h)][2]
    ELSE LastSet(SubSeq(h, 1, Len(h) - 1), key)

\* C20: after any sequence of Set calls, Get(k) returns the value of the
\* most recent Set(k, v), and the empty text for a key never set; Set(k, v)
\* leaves every other key as it was and Get changes nothing: at any time
\* the store holds, for each key, what its last Set call gave it, and holds
\* no key that was never set.
C20_GetReturnsLastSet ==
    /\ got # NoGet => got.value = LastSet(SubSeq(sets, 1, got.at), got.key)
    /\ \A key \in ConfigKeys : mapIndex(values, key) = LastSet(sets, key)
    /\ DOMAIN values = {sets[i][1] : i \in 1..Len(sets)}

\* C20 witness: a key set twice, another key set in between, and Get
\* returning the second value
C20_Witness ==
    /\ sets = << <<"key", "value">>, <<"", "value">>, <<"key", "42">> >>
    /\ got = [key |-> "key", value |-> "42", at |-> 3]

\* the texts that are an integer, a boolean, a duration, and their values
\* (durations in milliseconds)
IntTable == [t \in {"42", "-7", "+5", "0", "1", "30"} |->
                CASE t = "42" -> 42 [] t = "-7" -> 0 - 7 [] t = "+5" -> 5 [] t = "0" -> 0
                  [] t = "1" -> 1 [] t = "30" -> 30]
BoolTable == [t \in {"true", "1", "T", "false", "FALSE", "0"} |-> t \in {"true", "1", "T"}]
DurationTable == [t \in {"30s", "1h30m", "1.5h", "-5m", "500ms", "+2s", "0"} |->
                     CASE t = "30s" -> 30000 [] t = "1h30m" -> 5400000 [] t = "1.5h" -> 5400000
                       [] t = "-5m" -> 0 - 300000 [] t = "500ms" -> 500 [] t = "+2s" -> 2000
                       [] t = "0" -> 0]
TableOf(kind) ==
    CASE kind = "int" -> IntTable [] kind = "bool" -> BoolTable [] kind = "duration" -> DurationTable

\* whether key was set by one of the Set calls h
WasSet(h, key) == \E i \in 1..Len(h) : h[i][1] = key

\* the Set calls made before the call of ret
SetsBefore == SubSeq(sets, 1, ret.at)

\* whether the typed getter of ret fails: the key was never set, or the text
\* last stored under it is no value of the type
GetterFails ==
    \/ ~WasSet(SetsBefore, ret.key)
    \/ LastSet(SetsBefore, ret.key) \notin DOMAIN TableOf(ret.kind)

\* C21: GetIntWithDefault, GetBoolWithDefault and GetDurationWithDefault
\* return the default handed over exactly when the typed getter of their
\* type returns an error, that is when the key was never set or the text
\* stored is no value of that type, and return the value of the stored text
\* otherwise; none of them changes the store.
C21_DefaultIffGetterFails ==
    /\ ret.op = "Get" => (~ret.err.isNil <=> GetterFails)
    /\ ret.op = "GetWithDefault" =>
          ret.value = IF GetterFails THEN ret.def
                      ELSE TableOf(ret.kind)[LastSet(SetsBefore, ret.key)]
    /\ \A key \in TypedKeys : mapIndex(values, key) = LastSet(sets, key)
    /\ DOMAIN values = {sets[i][1] : i \in 1..Len(sets)}

\* C21 witness: GetIntWithDefault gave the default 100 for a stored text that
\* starts with digits and is no integer
C21_Witness ==
    /\ sets = << <<"valid", "5abc">> >>
    /\ ret.op = "GetWithDefault" /\ ret.kind = "int" /\ ret.key = "valid"
    /\ ret.def = 100 /\ ret.value = 100

\* whether key counts as missing after the Set calls h: never set, or last
\* set to the empty text
IsMissing(h, key) == ~WasSet(h, key) \/ LastSet(h, key) = ""

\* the keys of the list ks, in order, separated by sep
RECURSIVE Listing(_, _)
Listing(ks, sep) ==
    IF ks = <<>> THEN ""
    ELSE IF Len(ks) = 1 THEN ks[1]
    ELSE ks[1] \o sep \o Listing(Tail(ks), sep)

\* C22: Config.Validate(requiredKeys) returns an error if and only if a
\* listed key is absent from the store or stored with the empty text; the
\* error names exactly those keys, in the order of requiredKeys; the store
\* is unchanged; and Exists reports a key as present as soon as it was set,
\* to the empty text as well.
C22_ValidateNamesMissingKeys ==
    /\ ret.op = "Validate" =>
          LET missing == SelectSeq(ret.key, LAMBDA key : IsMissing(SetsBefore, key))
          IN  /\ ret.err.isNil <=> missing = <<>>
              /\ ~ret.err.isNil =>
                    ret.err.msg = "missing required configuration keys: "
                                  \o Listing(missing, ", ")
    /\ ret.op = "Exists" => (ret.value <=> WasSet(SetsBefore, ret.key))
    /\ \A key \in ConfigKeys : mapIndex(values, key) = LastSet(sets, key)
    /\ DOMAIN values = {sets[i][1] : i \in 1..Len(sets)}

\* C22 witness: with one key set to the empty text and one never set,
\* Validate named both, in the order asked
C22_Witness ==
    /\ sets = << <<"key", "value">>, <<"key", "">> >>
    /\ ret.op = "Validate" /\ ret.key = <<"nonexistent", "key">>
    /\ ret.err = Errorf("missing required configuration keys: nonexistent, key")

\* the decimal texts of 1, 2, 3, ...
Ordinals == <<"1", "2", "3", "4", "5", "6", "7", "8", "9", "10", "11", "12">>

\* every generator has returned '<prefix>-1', '<prefix>-2', ... in this
\* order, its counter is the number of calls made, and its IDs differ
SequentialIDs ==
    \A i \in 1..Len(gens) :
        /\ gens[i].counter = Len(ids[i])
        /\ \A k \in 1..Len(ids[i]) : ids[i][k] = gens[i].prefix \o "-" \o Ordinals[k]
        /\ \A j, k \in 1..Len(ids[i]) : j # k => ids[i][j] # ids[i][k]

\* a step creates a generator with counter 0, or adds exactly 1 to the
\* counter of the generator called and returns one more ID
CounterGrowsByOne ==
    /\ \A i \in 1..Len(gens) :
          /\ gens'[i].prefix = gens[i].prefix
          /\ \/ gens'[i].counter = gens[i].counter /\ ids'[i] = ids[i]
             \/ gens'[i].counter = gens[i].counter + 1 /\ Len(ids'[i]) = Len(ids[i]) + 1
    /\ Len(gens') > Len(gens) => gens'[Len(gens')].counter = 0

\* C23: on a SimpleIDGenerator created with prefix p and called sequentially,
\* the k-th Generate returns '<p>-<k>'; the counter starts at 0 and grows by
\* exactly 1 per call; no two calls on one generator return the same ID.
C23_SequentialIDs == [](SequentialIDs) /\ [][CounterGrowsByOne]_vars

\* C23 witness: two generators with the same prefix, the first called ten
\* times and the second once
C23_Witness ==
    /\ Len(gens) = 2
    /\ gens[1] = [counter |-> 10, prefix |-> "simple"]
    /\ ids[1][3] = "simple-3" /\ ids[1][10] = "simple-10"
    /\ ids[2] = <<"simple-1">>

HexDigits == {"0","1","2","3","4","5","6","7","8","9","a","b","c","d","e","f"}

\* the length a HexIDGenerator asked for with requested is to produce
HexLengthWanted(requested) == IF requested <= 0 THEN 16 ELSE requested

\* C24: for every requested length L > 0, even or odd, small or large,
\* HexIDGenerator.Generate returns exactly L lowercase hexadecimal characters
\* and never fails, whether or not the random source reports an error; a
\* requested length <= 0 is replaced by 16.
C24_HexReturnsExactLength ==
    /\ hexgen.length > 0 => hexgen.length = HexLengthWanted(hexgen.requested)
    /\ hexgen.called =>
          /\ ~hexgen.panicked
          /\ Len(hexgen.out) = HexLengthWanted(hexgen.requested)
          /\ \A i \in 1..Len(hexgen.out) : At(hexgen.out, i) \in HexDigits


\* C29: when two or more callers invoke Generate on one shared
\* SimpleIDGenerator with their read, increment and write steps interleaved,
\* all returned IDs are pairwise distinct, and once n calls have completed
\* and none is running the counter equals n (no update is lost).
C29_ConcurrentIDsDistinct ==
    regs # <<>> =>
        /\ \A j, k \in 1..Len(ids[1]) : j # k => ids[1][j] # ids[1][k]
        /\ (\A g \in Racers : regs[g].pc = "idle") => gens[1].counter = Len(ids[1])


\* the fragment every violation message of a rule carries
RuleFragment ==
    [required |-> "is required", min |-> "at least", max |-> "at most",
     email |-> "email", url |-> "URL", pattern |-> "pattern"]

\* the violations of the finished validateField call: the applyRule calls
\* that returned an error
FailedRules == {i \in 1..Len(ftrace) : ~ftrace[i].err.isNil}

\* C25, as claimed: every violation message contains the name of the field
\* whose rule failed and a fragment specific to the violated rule, for all
\* rule kinds, the unknown-rule failure included.
C25_EveryMessageNamesTheField ==
    fpc = "done" =>
        \A i \in FailedRules :
            /\ Contains(ftrace[i].err.msg, fin.name)
            /\ Contains(ftrace[i].err.msg,
                        IF ftrace[i].ruleName \in KnownRules
                        THEN RuleFragment[ftrace[i].ruleName]
                        ELSE "unknown validation rule")

\* C25, amended: the violation message of a recognised rule contains the
\* quoted name of the field and the fragment of that rule; the message of an
\* unknown rule is "unknown validation rule: <rule name>", made of the rule
\* name alone; and the call returns exactly these messages, in order.
C25_KnownRulesNameTheField ==
    fpc = "done" =>
        /\ \A i \in FailedRules :
              IF ftrace[i].ruleName \in KnownRules
              THEN /\ Contains(ftrace[i].err.msg, "field '" \o fin.name \o "'")
                   /\ Contains(ftrace[i].err.msg, RuleFragment[ftrace[i].ruleName])
              ELSE ftrace[i].err.msg = "unknown validation rule: " \o ftrace[i].ruleName
        /\ Len(fout) = Cardinality(FailedRules)
        /\ \A k \in 1..Len(fout) : \E i \in FailedRules : fout[k] = ftrace[i].err.msg

\* C25 witness: an empty text under required, an unknown rule and min=3
\* gave three messages, the second without the field's name
C25_Witness ==
    /\ fpc = "done" /\ fin.name = "Name" /\ fin.tag = "required,bogus,min=3"
    /\ fout = <<"field 'Name' is required", "unknown validation rule: bogus",
                "field 'Name' must be at least 3 characters">>


\* the parameter of a rule: its whole text after the first "=", empty when
\* the rule has no "="
RuleParameterOf(rule) ==
    IF Contains(rule, "=") THEN SubSeq(rule, Index(rule, "=") + 1, Len(rule)) ELSE ""

\* C26: the declaration is split into rules at every ",", and each rule into
\* a name and a single parameter at "=": the parameter handed to the
\* evaluator is the whole text of the rule after its first "=" (a pattern
\* that itself contains "=" arrives intact) and a rule without "=" has the
\* empty parameter.
C26_ParameterIsTextAfterFirstEquals ==
    fpc = "done" =>
        LET rules == ListedRules(fin.tag)
        IN  /\ Len(ftrace) = Len(rules)
            /\ \A k \in 1..Len(ftrace) :
                  /\ ~Contains(rules[k], ",")
                  /\ ftrace[k].ruleName = RuleNameOf(rules[k])
                  /\ ftrace[k].ruleValue = RuleParameterOf(rules[k])


\* C27: Validate always ends by returning nil or an error and never panics,
\* whatever it is given: nil, values that are not structs, structs with
\* unexported fields, nil pointer and nil interface fields, fields of any
\* kind under any rule, unknown rules, malformed min, max and pattern
\* parameters.  The loop variable stays within the number of fields, so the
\* call ends after that many iterations.
C27_ValidateNeverPanics ==
    /\ pc \in {"call", "loop", "done"}
    /\ idx <= Len(data.fields)
    /\ pc = "done" =>
          \/ result = Nil
          \/ ~result.isNil /\ result # NoResult /\ result.msg # ""
    /\ pc # "done" => result = NoResult

\* C27 witness: a nil interface field under required and min with a
\* malformed bound was refused by required, and the call returned
C27_Witness ==
    /\ pc = "done"
    /\ data.fields = <<F("Field", TRUE, "required,bogus,min=3", IfaceNilV)>>
    /\ result = Errorf("validation failed: field 'Field' is required; "
                       \o "unknown validation rule: bogus")


\* C28: rules min and max on a field whose kind is none of text, sequence,
\* array or signed integer (unsigned integer, float, boolean, mapping,
\* pointer, function, nested record, nil interface) never produce a
\* violation, whatever the value and the bound, malformed bounds included:
\* unlike email, url and pattern they report no type mismatch.
C28_MinMaxIgnoreOtherKinds ==
    (/\ fpc = "done"
     /\ ~Contains(fin.tag, ",")
     /\ RuleNameOf(fin.tag) \in {"min", "max"}
     /\ fin.value.kind \notin MeasuredKinds) => fout = <<>>

\* C28 witness: a mapping of one entry passed max=0, which a sequence of one
\* item fails
C28_Witness ==
    /\ fpc = "done" /\ fin.tag = "max=0" /\ fin.value = MapV(1, FALSE) /\ fout = <<>>
    /\ validateField(fin.name, SliceV(1, FALSE), fin.tag) # <<>>

====
